---- MODULE Spec2Model ----
EXTENDS Integers, Sequences, FiniteSets, TLC

(***************************************************************************)
(* cfn-teleport: moving / renaming CloudFormation resources.               *)
(*                                                                         *)
(* Strings are sequences of tokens.  A token is one character of an        *)
(* identifier ("A", "B", ...), one punctuation character ("$", "{", "}",   *)
(* "."), or a whole keyword that is never matched piecewise ("Ref",        *)
(* "Fn::Sub", "AWS::", "Arn", ...).  String operations of the source       *)
(* (replace, split, starts_with, the Fn::Sub scanner) are computed on the  *)
(* token sequence.                                                         *)
(*                                                                         *)
(* A serde_json::Value is a record [t, v]: t is the variant, v the payload *)
(* (token sequence, sequence of values, or function from keys to values).  *)
(***************************************************************************)

VARIABLES
    pc,                  \* position of run()
    source_stack,        \* args.source
    target_stack,        \* args.target
    args_mode,           \* args.mode: "Refactor" | "Import"
    args_export,         \* args.export (dry-run)
    args_migration_spec, \* args.migration_spec is given (else --resource tokens)
    resource_refs,       \* logical ids of the resources get_resources listed
    template_source,     \* Template fetched for the source stack
    template_target,     \* Template fetched for the target stack
    new_logical_ids_map, \* HashMap old id -> new id
    order,               \* iteration order of new_logical_ids_map in this process
    built,               \* templates computed by the run (label -> Template)
    calls,               \* external control-plane calls issued so far, in order
    disk,                \* file-system operations so far, in order
    polls,               \* in-progress statuses the run has been given so far
    observed,            \* status carried by the latest status response
    result,              \* what run() returned
    tree,                \* reference engine: the Value being rewritten
    tree0,               \* reference engine: the Value before rewriting
    pairs,               \* reference engine: the pairs of the mapping not applied yet
    applied,             \* reference engine: the pairs applied so far, in order
    index,               \* reference engine: result of find_all_references
    listed_ids           \* the ids handed to set_default_deletion_policy

vars == <<pc, source_stack, target_stack, args_mode, args_export, args_migration_spec,
          resource_refs, template_source,
          template_target, new_logical_ids_map, order, built, calls, disk,
          polls, observed,
          result, tree, tree0, pairs, applied, index, listed_ids>>

runVars == <<source_stack, target_stack, args_mode, args_export, args_migration_spec,
             resource_refs, template_source,
             template_target, new_logical_ids_map, order, built, calls, disk,
          polls, observed,
             result>>

engineVars == <<tree, tree0, pairs, applied, index, listed_ids>>

----------------------------------------------------------------------------
(* serde_json::Value *)

Str(s) == [t |-> "str", v |-> s]
Arr(a) == [t |-> "arr", v |-> a]
Obj(f) == [t |-> "obj", v |-> f]
Null == [t |-> "null", v |-> <<>>]
Num(n) == [t |-> "num", v |-> n]
Bool(b) == [t |-> "bool", v |-> b]
EmptyMap == [k \in {} |-> Null]

IsStr(x) == x.t = "str"
IsArr(x) == x.t = "arr"
IsObj(x) == x.t = "obj"

\* Value::get(key): the member of an object, None (Null here is never stored).
Has(x, k) == IsObj(x) /\ k \in DOMAIN x.v
Get(x, k) == x.v[k]

\* Map::insert(key, value)
Insert(f, k, x) == [j \in (DOMAIN f) \cup {k} |-> IF j = k THEN x ELSE f[j]]
\* Map::remove(key)
Remove(f, k) == [j \in (DOMAIN f) \ {k} |-> f[j]]

kRef == <<"Ref">>
kGetAtt == <<"Fn::GetAtt">>
kSub == <<"Fn::Sub">>
kDependsOn == <<"DependsOn">>
kType == <<"Type">>
kResources == <<"Resources">>
kOutputs == <<"Outputs">>
kParameters == <<"Parameters">>
kProperties == <<"Properties">>
kDeletionPolicy == <<"DeletionPolicy">>

----------------------------------------------------------------------------
(* reference_updater.rs *)

is_pseudo_parameter(name) == Len(name) > 0 /\ name[1] = "AWS::"

\* str::replace(pat, rep): every non-overlapping match, left to right.
RECURSIVE Replace(_, _, _)
Replace(s, pat, rep) ==
    IF Len(s) < Len(pat) THEN s
    ELSE IF SubSeq(s, 1, Len(pat)) = pat
         THEN rep \o Replace(SubSeq(s, Len(pat) + 1, Len(s)), pat, rep)
         ELSE <<s[1]>> \o Replace(Tail(s), pat, rep)

\* First position >= i of s holding a token of stop, Len(s)+1 when there is none.
RECURSIVE FirstAt(_, _, _)
FirstAt(s, i, stop) ==
    IF i > Len(s) THEN Len(s) + 1
    ELSE IF s[i] \in stop THEN i
    ELSE FirstAt(s, i + 1, stop)

\* str::split('.').next()
BeforeDot(s) == SubSeq(s, 1, FirstAt(s, 1, {"."}) - 1)

RECURSIVE ScanSub(_, _)
ScanSub(s, i) ==
    IF i > Len(s) THEN {}
    ELSE IF s[i] = "$" /\ i + 1 <= Len(s) /\ s[i + 1] = "{"
         THEN LET j == FirstAt(s, i + 2, {"}", "."})
                  var_name == SubSeq(s, i + 2, j - 1)
                  k == FirstAt(s, j, {"}"})
              IN (IF var_name # <<>> /\ ~is_pseudo_parameter(var_name)
                  THEN {var_name} ELSE {})
                 \cup ScanSub(s, k + 1)
         ELSE ScanSub(s, i + 1)

extract_sub_references(template) == ScanSub(template, 1)

RefNames(map) ==
    IF kRef \in DOMAIN map /\ IsStr(map[kRef]) /\ ~is_pseudo_parameter(map[kRef].v)
    THEN {map[kRef].v} ELSE {}

GetAttNames(map) ==
    IF kGetAtt \notin DOMAIN map THEN {}
    ELSE LET g == map[kGetAtt]
         IN IF IsArr(g)
            THEN (IF Len(g.v) > 0 /\ IsStr(g.v[1]) THEN {g.v[1].v} ELSE {})
            ELSE IF IsStr(g) THEN {BeforeDot(g.v)} ELSE {}

SubNames(map) ==
    IF kSub \notin DOMAIN map THEN {}
    ELSE LET s == map[kSub]
         IN IF IsStr(s) THEN extract_sub_references(s.v)
            ELSE IF IsArr(s) /\ Len(s.v) > 0 /\ IsStr(s.v[1])
                 THEN extract_sub_references(s.v[1].v)
                 ELSE {}

DependsOnNames(map) ==
    IF kType \in DOMAIN map /\ kDependsOn \in DOMAIN map
    THEN LET d == map[kDependsOn]
         IN IF IsStr(d) THEN {d.v}
            ELSE IF IsArr(d)
                 THEN {d.v[i].v : i \in {n \in 1..Len(d.v) : IsStr(d.v[n])}}
                 ELSE {}
    ELSE {}

RECURSIVE collect_references(_)
collect_references(value) ==
    IF IsObj(value)
    THEN RefNames(value.v) \cup GetAttNames(value.v) \cup SubNames(value.v)
         \cup DependsOnNames(value.v)
         \cup UNION {collect_references(value.v[k]) : k \in DOMAIN value.v}
    ELSE IF IsArr(value)
         THEN UNION {collect_references(value.v[i]) : i \in 1..Len(value.v)}
         ELSE {}

\* HashMap<String, HashSet<String>>: a function from the declarants that
\* reference something to the names they reference.
find_all_references(template) ==
    LET res == IF Has(template, kResources) /\ IsObj(Get(template, kResources))
               THEN Get(template, kResources).v ELSE EmptyMap
        outs == IF Has(template, kOutputs) /\ IsObj(Get(template, kOutputs))
                THEN Get(template, kOutputs).v ELSE EmptyMap
        refs_in_outputs == UNION {collect_references(outs[o]) : o \in DOMAIN outs}
        fromRes == {d \in DOMAIN res : collect_references(res[d]) # {}}
        keys == fromRes \cup (IF refs_in_outputs # {} THEN {kOutputs} ELSE {})
    IN [d \in keys |->
          IF d = kOutputs /\ refs_in_outputs # {} THEN refs_in_outputs
          ELSE collect_references(res[d])]

SubPlaceholder(id) == <<"$", "{">> \o id \o <<"}">>
SubPlaceholderDot(id) == <<"$", "{">> \o id \o <<".">>

\* A substitution that would match the opening of a placeholder and the
\* identifier, without the closing brace or the dot after it.
update_sub_string_PrefixMatch(s, old_id, new_id) ==
    Replace(s, <<"$", "{">> \o old_id, <<"$", "{">> \o new_id)

\* The two str::replace calls of update_sub_value on a template string.
update_sub_string(s, old_id, new_id) ==
    Replace(Replace(s, SubPlaceholder(old_id), SubPlaceholder(new_id)),
            SubPlaceholderDot(old_id), SubPlaceholderDot(new_id))

update_dependson_value(depends_value, old_id, new_id) ==
    IF IsStr(depends_value)
    THEN (IF depends_value.v = old_id THEN Str(new_id) ELSE depends_value)
    ELSE IF IsArr(depends_value)
         THEN Arr([i \in 1..Len(depends_value.v) |->
                     IF IsStr(depends_value.v[i]) /\ depends_value.v[i].v = old_id
                     THEN Str(new_id) ELSE depends_value.v[i]])
         ELSE depends_value

RECURSIVE traverse_and_update(_, _, _)
RECURSIVE update_sub_value(_, _, _)

update_sub_value(sub_value, old_id, new_id) ==
    IF IsStr(sub_value) THEN Str(update_sub_string(sub_value.v, old_id, new_id))
    ELSE IF IsArr(sub_value)
    THEN IF Len(sub_value.v) = 0 THEN sub_value
         ELSE LET a0 == IF IsStr(sub_value.v[1])
                        THEN [sub_value.v EXCEPT
                                ![1] = Str(update_sub_string(sub_value.v[1].v,
                                                             old_id, new_id))]
                        ELSE sub_value.v
              IN IF Len(a0) > 1 /\ IsObj(a0[2])
                 THEN LET var_map == a0[2].v
                          renamed ==
                              IF old_id \in DOMAIN var_map
                              THEN Insert(Remove(var_map, old_id), new_id,
                                          traverse_and_update(var_map[old_id],
                                                              old_id, new_id))
                              ELSE var_map
                          new_map == [k \in DOMAIN renamed |->
                                        traverse_and_update(renamed[k], old_id, new_id)]
                      IN Arr([a0 EXCEPT ![2] = Obj(new_map)])
                 ELSE Arr(a0)
    ELSE sub_value

traverse_and_update(value, old_id, new_id) ==
    IF IsObj(value)
    THEN LET map == value.v
         IN IF /\ kRef \in DOMAIN map /\ IsStr(map[kRef])
               /\ map[kRef].v = old_id /\ ~is_pseudo_parameter(map[kRef].v)
            THEN Obj(Insert(map, kRef, Str(new_id)))
            ELSE IF /\ kGetAtt \in DOMAIN map /\ IsArr(map[kGetAtt])
                    /\ Len(map[kGetAtt].v) > 0 /\ IsStr(map[kGetAtt].v[1])
                    /\ map[kGetAtt].v[1].v = old_id
                 THEN Obj(Insert(map, kGetAtt,
                                 Arr([map[kGetAtt].v EXCEPT ![1] = Str(new_id)])))
                 ELSE LET m1 == IF kSub \in DOMAIN map
                                THEN Insert(map, kSub,
                                            update_sub_value(map[kSub], old_id, new_id))
                                ELSE map
                          m2 == IF kDependsOn \in DOMAIN m1
                                THEN Insert(m1, kDependsOn,
                                            update_dependson_value(m1[kDependsOn],
                                                                   old_id, new_id))
                                ELSE m1
                      IN Obj([k \in DOMAIN m2 |->
                                traverse_and_update(m2[k], old_id, new_id)])
    ELSE IF IsArr(value)
         THEN Arr([i \in 1..Len(value.v) |->
                     traverse_and_update(value.v[i], old_id, new_id)])
         ELSE value

\* A rewriter that would hand back an empty object for any value that is not
\* an object.
RECURSIVE update_template_references_ObjectsOnly(_, _, _)
update_template_references_ObjectsOnly(template, id_mapping, ord) ==
    IF ~IsObj(template) THEN Obj(EmptyMap)
    ELSE IF ord = <<>> THEN template
         ELSE update_template_references_ObjectsOnly(
                  traverse_and_update(template, Head(ord), id_mapping[Head(ord)]),
                  id_mapping, Tail(ord))

\* for (old_id, new_id) in id_mapping: one pass per pair, in the order `ord`
\* in which the HashMap yields its keys.
RECURSIVE update_template_references(_, _, _)
update_template_references(template, id_mapping, ord) ==
    IF ord = <<>> THEN template
    ELSE update_template_references(
             traverse_and_update(template, Head(ord), id_mapping[Head(ord)]),
             id_mapping, Tail(ord))

----------------------------------------------------------------------------
(* main.rs: Template and the template operators *)

\* Template::new
Template(content, format) == [content |-> content, format |-> format]

\* Template::to_string: the text is the content written in the template's format.
to_string(template) == [text_of |-> template.content, syntax |-> template.format]

\* template["Resources"].as_object(): the declarations of a template.
ResourcesOf(template) ==
    IF Has(template, kResources) /\ IsObj(Get(template, kResources))
    THEN Get(template, kResources).v ELSE EmptyMap

WithResources(template, resources) ==
    Obj(Insert(template.v, kResources, Obj(resources)))

\* template.get("Parameters").and_then(as_object).keys()
ParameterNames(template) ==
    IF Has(template, kParameters) /\ IsObj(Get(template, kParameters))
    THEN DOMAIN Get(template, kParameters).v ELSE {}

\* compute_dependency_markers(resources, template): the four markers of every
\* listed resource.
compute_dependency_markers(resources, template) ==
    LET all_references == find_all_references(template)
        output_references == IF kOutputs \in DOMAIN all_references
                             THEN all_references[kOutputs] ELSE {}
        parameter_names == ParameterNames(template)
        resource_names == IF Has(template, kResources) /\ IsObj(Get(template, kResources))
                          THEN DOMAIN Get(template, kResources).v ELSE {}
        resource_references(id) == IF id \in DOMAIN all_references
                                   THEN all_references[id] ELSE {}
    IN [logical_id \in resources |->
          [has_incoming_deps |->
               \E referencing_resource \in DOMAIN all_references :
                   /\ referencing_resource # kOutputs
                   /\ logical_id \in all_references[referencing_resource],
           has_outgoing_deps |-> resource_references(logical_id) \cap resource_names # {},
           referenced_by_outputs |-> logical_id \in output_references,
           depends_on_parameters |->
               resource_references(logical_id) \cap parameter_names # {}]]

\* The elements of a set in the order an iteration yields them.
RECURSIVE SetToSeq(_)
SetToSeq(S) ==
    IF S = {} THEN <<>>
    ELSE LET x == CHOOSE y \in S : TRUE IN <<x>> \o SetToSeq(S \ {x})

RECURSIVE Flatten(_)
Flatten(ss) == IF ss = <<>> THEN <<>> ELSE Head(ss) \o Flatten(Tail(ss))

Violation(kind, from, to) == [kind |-> kind, from |-> from, to |-> to]

\* The body of `for referenced in referenced_resources` for a regular resource.
\* A validator that would look at incoming references only: a mover's
\* reference to a stayer goes unreported.
ErrorsOfPair_IncomingOnly(moving_resources, parameter_names, referencing_resource, referenced) ==
    IF referenced \in parameter_names THEN <<>>
    ELSE IF referencing_resource \notin moving_resources /\ referenced \in moving_resources
         THEN <<Violation("stayer", referencing_resource, referenced)>> ELSE <<>>

ErrorsOfPair(moving_resources, parameter_names, referencing_resource, referenced) ==
    IF referenced \in parameter_names THEN <<>>
    ELSE LET is_referencing_resource_moving == referencing_resource \in moving_resources
             is_referenced_resource_moving == referenced \in moving_resources
         IN (IF ~is_referencing_resource_moving /\ is_referenced_resource_moving
             THEN <<Violation("stayer", referencing_resource, referenced)>> ELSE <<>>)
            \o
            (IF is_referencing_resource_moving /\ ~is_referenced_resource_moving
             THEN <<Violation("mover", referencing_resource, referenced)>> ELSE <<>>)

\* A validator that would treat the Outputs pseudo-declarant as exempt.
ErrorsOfDeclarant_OutputsExempt(moving_resources, parameter_names, referencing_resource, referenced_resources) ==
    LET refs == SetToSeq(referenced_resources)
    IN IF referencing_resource = kOutputs THEN <<>>
       ELSE Flatten([i \in 1..Len(refs) |->
                       ErrorsOfPair(moving_resources, parameter_names,
                                    referencing_resource, refs[i])])

\* The body of `for (referencing_resource, referenced_resources) in &all_references`.
ErrorsOfDeclarant(moving_resources, parameter_names, referencing_resource, referenced_resources) ==
    LET refs == SetToSeq(referenced_resources)
    IN IF referencing_resource = kOutputs
       THEN Flatten([i \in 1..Len(refs) |->
                       IF refs[i] \in moving_resources
                       THEN <<Violation("outputs", kOutputs, refs[i])>> ELSE <<>>])
       ELSE Flatten([i \in 1..Len(refs) |->
                       ErrorsOfPair(moving_resources, parameter_names,
                                    referencing_resource, refs[i])])

\* A validator that would return at the first violation it finds.
validate_move_references_FirstOnly(source_template, id_map) ==
    LET moving_resources == DOMAIN id_map
        parameter_names == ParameterNames(source_template)
        all_references == find_all_references(source_template)
        declarants == SetToSeq(DOMAIN all_references)
        errors == Flatten([i \in 1..Len(declarants) |->
                     ErrorsOfDeclarant(moving_resources, parameter_names, declarants[i],
                                       all_references[declarants[i]])])
    IN IF errors = <<>> THEN <<>> ELSE <<errors[1]>>

\* validate_move_references: the errors vector; Ok(()) iff it is empty.
validate_move_references(source_template, id_map) ==
    LET moving_resources == DOMAIN id_map
        parameter_names == ParameterNames(source_template)
        all_references == find_all_references(source_template)
        declarants == SetToSeq(DOMAIN all_references)
    IN Flatten([i \in 1..Len(declarants) |->
                  ErrorsOfDeclarant(moving_resources, parameter_names, declarants[i],
                                    all_references[declarants[i]])])

retain_resources(template, resource_ids) ==
    LET resources == ResourcesOf(template)
    IN WithResources(template,
         [r \in DOMAIN resources |->
            IF r \in resource_ids
            THEN Obj(Insert(resources[r].v, kDeletionPolicy, Str(<<"Retain">>)))
            ELSE resources[r]])

DefaultDeletionPolicy(resource_object) ==
    LET resource_type == resource_object[kType].v
    IN IF resource_type = <<"AWS::", "RDS::DBCluster">> THEN <<"Snapshot">>
       ELSE IF resource_type = <<"AWS::", "RDS::DBInstance">>
            THEN (IF <<"DBClusterIdentifier">> \in DOMAIN resource_object
                  THEN <<"Delete">> ELSE <<"Snapshot">>)
            ELSE <<"Delete">>

set_default_deletion_policy(template, resource_ids) ==
    LET resources == ResourcesOf(template)
    IN WithResources(template,
         [r \in DOMAIN resources |->
            IF r \in resource_ids /\ IsObj(resources[r])
               /\ kDeletionPolicy \notin DOMAIN resources[r].v
            THEN Obj(Insert(resources[r].v, kDeletionPolicy,
                            Str(DefaultDeletionPolicy(resources[r].v))))
            ELSE resources[r]])

remove_resources(template, resource_ids) ==
    LET resources == ResourcesOf(template)
    IN WithResources(template, [r \in (DOMAIN resources) \ resource_ids |-> resources[r]])

\* The insert loop of add_resources, one pair per iteration in the order `ord`.
RECURSIVE InsertMoved(_, _, _, _)
InsertMoved(target_resources, source_resources, resource_id_map, ord) ==
    IF ord = <<>> THEN target_resources
    ELSE InsertMoved(
             IF Head(ord) \in DOMAIN source_resources
             THEN Insert(target_resources, resource_id_map[Head(ord)],
                         source_resources[Head(ord)])
             ELSE target_resources,
             source_resources, resource_id_map, Tail(ord))

\* add_resources: <<target_template_with_deletion_policy, target_template>>
add_resources(target_template, source_template, resource_id_map, ord) ==
    LET merged == WithResources(target_template,
                      InsertMoved(ResourcesOf(target_template),
                                  ResourcesOf(source_template), resource_id_map, ord))
    IN <<set_default_deletion_policy(merged,
                                     {resource_id_map[k] : k \in DOMAIN resource_id_map}),
         merged>>

\* The rename loop of refactor_stack_resources.
RECURSIVE RenameKeys(_, _, _)
RenameKeys(resources, id_mapping, ord) ==
    IF ord = <<>> THEN resources
    ELSE RenameKeys(
             IF Head(ord) \in DOMAIN resources
             THEN Insert(Remove(resources, Head(ord)), id_mapping[Head(ord)],
                         resources[Head(ord)])
             ELSE resources,
             id_mapping, Tail(ord))

\* Step 1 of refactor_stack_resources: the renamed template with references updated.
RenamedTemplate(content, id_mapping, ord) ==
    update_template_references(
        IF Has(content, kResources) /\ IsObj(Get(content, kResources))
        THEN WithResources(content, RenameKeys(ResourcesOf(content), id_mapping, ord))
        ELSE content,
        id_mapping, ord)

----------------------------------------------------------------------------
(* Inputs: identifiers, reference constructs, declarations *)

idA == <<"A">>
idB == <<"B">>
idC == <<"C">>
idD == <<"D">>
idP == <<"P">>                      \* a template parameter
pseudoRegion == <<"AWS::", "Region">>

tBucket == <<"AWS::", "S3::Bucket">>
tQueue == <<"AWS::", "SQS::Queue">>
tCluster == <<"AWS::", "RDS::DBCluster">>
tInstance == <<"AWS::", "RDS::DBInstance">>

Key1(k, x) == k :> x

RefTo(T) == Obj(Key1(kRef, Str(T)))
GetAttArr(T) == Obj(Key1(kGetAtt, Arr(<<Str(T), Str(<<"Arn">>)>>)))
GetAttDot(T) == Obj(Key1(kGetAtt, Str(T \o <<".", "Arn">>)))
SubStr(T) == Obj(Key1(kSub, Str(<<"arn:">> \o SubPlaceholder(T))))
SubStrDot(T) == Obj(Key1(kSub, Str(SubPlaceholderDot(T) \o <<"Arn", "}">>)))
SubArr(T) == Obj(Key1(kSub, Arr(<<Str(SubPlaceholder(T)), Obj(EmptyMap)>>)))

\* A declaration of type ty whose property X holds the value x.
Decl(ty, x) == Obj(Key1(kType, Str(ty)) @@ Key1(kProperties, Obj(Key1(<<"X">>, x))))
\* A declaration with a DependsOn attribute.
DeclDependsOn(ty, d) ==
    Obj(Key1(kType, Str(ty)) @@ Key1(kDependsOn, d) @@ Key1(kProperties, Obj(EmptyMap)))
Plain(ty) == Decl(ty, Str(<<"x">>))
\* The declaration with DeletionPolicy: Retain.
Retained(decl) == Obj(Insert(decl.v, kDeletionPolicy, Str(<<"Retain">>)))

Forms == {"Ref", "GetAttArr", "GetAttDot", "SubStr", "SubStrDot", "SubArr",
          "DependsOnStr", "DependsOnArr"}

\* A declaration holding exactly one reference construct of the form, naming T.
DeclWith(form, ty, T) ==
    CASE form = "Ref" -> Decl(ty, RefTo(T))
      [] form = "GetAttArr" -> Decl(ty, GetAttArr(T))
      [] form = "GetAttDot" -> Decl(ty, GetAttDot(T))
      [] form = "SubStr" -> Decl(ty, SubStr(T))
      [] form = "SubStrDot" -> Decl(ty, Arr(<<SubStrDot(T)>>))
      [] form = "SubArr" -> Decl(ty, SubArr(T))
      [] form = "DependsOnStr" -> DeclDependsOn(ty, Str(T))
      [] form = "DependsOnArr" -> DeclDependsOn(ty, Arr(<<Str(T)>>))

TemplateOf(resources, parameters, outputs) ==
    Obj(Key1(kResources, Obj(resources)) @@ Key1(kParameters, Obj(parameters))
        @@ Key1(kOutputs, Obj(outputs)))

\* All functions from a non-empty subset of keys to values: the HashMaps old -> new.
Mappings(keys, values) ==
    UNION {[ks -> values] : ks \in (SUBSET keys) \ {{}}}

PairsOf(m) == {<<k, m[k]>> : k \in DOMAIN m}

----------------------------------------------------------------------------
(* The reference engine on its own: update_template_references applied one   *)
(* pair per pass, in any order, then find_all_references on the result.      *)

EngineBodiesA ==
    {Plain(tBucket)} \cup {DeclWith(f, tQueue, T) : f \in Forms, T \in {idB, idC}}
    \cup {Decl(tQueue, RefTo(pseudoRegion)),
          Decl(tQueue, Arr(<<RefTo(idA), GetAttDot(idB)>>))}

EngineBodiesB ==
    {Plain(tBucket), Decl(tBucket, RefTo(idA)), Decl(tBucket, SubStr(idA)),
     DeclDependsOn(tBucket, Arr(<<Str(idA), Str(idB)>>))}

EngineTrees ==
    {TemplateOf(Key1(idA, a) @@ Key1(idB, b), EmptyMap, EmptyMap) :
        a \in EngineBodiesA, b \in EngineBodiesB}

EngineMappings == Mappings({idA, idB}, {idA, idB, idC, idD})

NoTemplate == Template(Null, "Json")

\* The status carried by the latest status response and the field it was read
\* from ("None" when the response carried no status).
NoStatus == [read |-> "", status |-> ""]
Observing(field, status) == [read |-> field, status |-> status]

\* The value run() has returned: nothing yet, Ok(()), or Err.
NoResult == [ok |-> "none", error |-> "", detail |-> <<>>]
Ok == [ok |-> "yes", error |-> "", detail |-> <<>>]
Err(error, detail) == [ok |-> "no", error |-> error, detail |-> detail]

RunIdle ==
    /\ source_stack = "" /\ target_stack = "" /\ args_mode = "" /\ args_export = FALSE
    /\ args_migration_spec = FALSE /\ resource_refs = {}
    /\ template_source = NoTemplate /\ template_target = NoTemplate
    /\ new_logical_ids_map = EmptyMap /\ order = <<>> /\ built = EmptyMap
    /\ calls = <<>> /\ disk = <<>> /\ polls = 0 /\ observed = NoStatus /\ result = NoResult

EngineInit ==
    /\ pc = "rewriting"
    /\ tree0 \in EngineTrees
    /\ tree = tree0
    /\ pairs \in {PairsOf(m) : m \in EngineMappings}
    /\ applied = <<>>
    /\ index = EmptyMap
    /\ listed_ids = {}
    /\ RunIdle

\* A loop that would skip a pair whose old name is the new name of a pair
\* already applied.
ApplyPair_SkippingChained ==
    /\ pc = "rewriting"
    /\ \E p \in pairs :
         /\ tree' = IF \E i \in 1..Len(applied) : applied[i][2] = p[1]
                    THEN tree ELSE traverse_and_update(tree, p[1], p[2])
         /\ pairs' = pairs \ {p}
         /\ applied' = Append(applied, p)
    /\ UNCHANGED <<pc, tree0, index, listed_ids>>
    /\ UNCHANGED runVars

\* A loop that would rewrite for the first pair only.
ApplyPair_FirstOnly ==
    /\ pc = "rewriting"
    /\ \E p \in pairs :
         /\ tree' = IF applied # <<>> THEN tree ELSE traverse_and_update(tree, p[1], p[2])
         /\ pairs' = pairs \ {p}
         /\ applied' = Append(applied, p)
    /\ UNCHANGED <<pc, tree0, index, listed_ids>>
    /\ UNCHANGED runVars

\* One iteration of `for (old_id, new_id) in id_mapping`.
ApplyPair ==
    /\ pc = "rewriting"
    /\ \E p \in pairs :
         /\ tree' = traverse_and_update(tree, p[1], p[2])
         /\ pairs' = pairs \ {p}
         /\ applied' = Append(applied, p)
    /\ UNCHANGED <<pc, tree0, index, listed_ids>>
    /\ UNCHANGED runVars

\* find_all_references on the rewritten template.
Reindex ==
    /\ pc = "rewriting"
    /\ pairs = {}
    /\ index' = find_all_references(tree)
    /\ pc' = "indexed"
    /\ UNCHANGED <<tree, tree0, pairs, applied, listed_ids>>
    /\ UNCHANGED runVars

EngineNext == ApplyPair \/ Reindex

SpecEngine == EngineInit /\ [][EngineNext]_vars

----------------------------------------------------------------------------
(* The contracts of the pure functions, each applied once to an input:       *)
(* find_all_references, update_template_references with an empty mapping,    *)
(* traverse_and_update on an Fn::Sub value, set_default_deletion_policy.     *)

idA2 == <<"A", "2">>                \* an identifier of which A is a proper prefix

\* Declaration bodies for the index: every construct naming a declaration or a
\* pseudo-parameter, constructs nested in arrays and objects, and look-alikes.
ContractBodies ==
    {Plain(tBucket)} \cup {DeclWith(f, tQueue, T) : f \in Forms, T \in {idB, pseudoRegion}}
    \cup {Decl(tQueue, Arr(<<Obj(Key1(<<"K">>, RefTo(idB)))>>)),
          Decl(tQueue, Obj(Key1(kDependsOn, Str(idB)))),
          Decl(tQueue, DeclDependsOn(tBucket, Str(idB))),
          Decl(tQueue, Obj(Key1(kRef, Num(5)))),
          Decl(tQueue, Obj(Key1(kSub, Str(<<"$", "{", "}">>)))),
          Decl(tQueue, Arr(<<RefTo(pseudoRegion), RefTo(idB)>>))}

ContractOutputs ==
    {EmptyMap} \cup {Key1(<<"Out">>, Obj(Key1(<<"Value">>, RefTo(T)))) : T \in {idA, pseudoRegion}}

ContractTemplates ==
    {TemplateOf(Key1(idA, a) @@ Key1(idB, b), EmptyMap, o) :
        a \in ContractBodies, b \in {Plain(tBucket), Decl(tBucket, RefTo(idA))},
        o \in ContractOutputs}

\* A database instance naming its cluster in Properties, as CloudFormation has it.
InstanceOfCluster(T) ==
    Obj(Key1(kType, Str(tInstance))
        @@ Key1(kProperties, Obj(Key1(<<"DBClusterIdentifier">>, RefTo(T)))))
\* A resource object holding the key DBClusterIdentifier next to Type.
InstanceKeyed(T) == Obj(Insert(Plain(tInstance).v, <<"DBClusterIdentifier">>, RefTo(T)))

PolicyBodies ==
    LET bare == {Plain(tCluster), Plain(tInstance), InstanceOfCluster(idA),
                 InstanceKeyed(idA), Plain(tBucket)}
    IN bare \cup {Retained(d) : d \in bare} \cup {Str(<<"x">>)}

PolicyTemplates ==
    {TemplateOf(Key1(idA, a) @@ Key1(idB, b), EmptyMap, EmptyMap) :
        a \in PolicyBodies, b \in PolicyBodies}

\* Pieces of an Fn::Sub template string and the strings of one or two pieces.
SubPieces ==
    {<<"arn:">>, SubPlaceholder(pseudoRegion)}
    \cup {SubPlaceholder(T) : T \in {idA, idA2, idB}}
    \cup {SubPlaceholderDot(T) \o <<"Arn", "}">> : T \in {idA, idA2}}

SubStrings == SubPieces \cup {x \o y : x \in SubPieces, y \in SubPieces}

SubValues ==
    {Obj(Key1(kSub, Str(x))) : x \in SubStrings}
    \cup {Obj(Key1(kSub, Arr(<<Str(x), Obj(Key1(<<"V">>, Str(<<"x">>)))>>))) : x \in SubPieces}

PlainValues ==
    {Null, Num(1), Bool(TRUE), Str(<<"x">>), Obj(EmptyMap), Arr(<<>>),
     Arr(<<RefTo(idA), Num(1), Null>>), RefTo(idA), GetAttArr(idA)}

\* The name of a local variable of an Fn::Sub variable map.
idV == <<"V">>

\* Fn::Sub with a variable map that defines the placeholder's name locally.
SubWithLocal(V) ==
    Obj(Key1(kSub, Arr(<<Str(SubPlaceholder(V)), Obj(Key1(V, Str(<<"x">>)))>>)))

\* Templates with one parameter P or none, whose declarations reference each
\* other, themselves, the parameter, a pseudo-parameter, a local variable of
\* Fn::Sub or nothing.
MarkerTemplates ==
    {TemplateOf(Key1(idA, a) @@ Key1(idB, b), p, o) :
        a \in {Plain(tQueue)} \cup {Decl(tQueue, RefTo(T)) : T \in {idA, idB, idP, pseudoRegion}}
               \cup {Decl(tQueue, Arr(<<RefTo(idB), RefTo(idP)>>)),
                     Decl(tQueue, SubWithLocal(idV))},
        b \in {Plain(tBucket), Decl(tBucket, RefTo(idA)), Decl(tBucket, SubWithLocal(idB))},
        p \in {EmptyMap, Key1(idP, Obj(Key1(kType, Str(<<"String">>))))},
        o \in ContractOutputs}

ContractInit ==
    /\ pc = "input"
    /\ tree0 \in ContractTemplates \cup PolicyTemplates \cup SubValues \cup PlainValues
                \cup MarkerTemplates
    /\ tree = tree0
    /\ pairs = {}
    /\ applied = <<>>
    /\ index = EmptyMap
    /\ listed_ids = {}
    /\ RunIdle

\* find_all_references(&template)
FindAllReferences ==
    /\ pc = "input"
    /\ index' = find_all_references(tree0)
    /\ pc' = "indexed"
    /\ UNCHANGED <<tree, tree0, pairs, applied, listed_ids>>
    /\ UNCHANGED runVars

\* update_template_references(template, &HashMap::new())
RewriteWithEmptyMapping ==
    /\ pc = "input"
    /\ tree' = update_template_references(tree0, EmptyMap, <<>>)
    /\ pc' = "rewritten"
    /\ UNCHANGED <<tree0, pairs, applied, index, listed_ids>>
    /\ UNCHANGED runVars

\* traverse_and_update on an object holding Fn::Sub, for one pair old -> new.
RenameInSub ==
    /\ pc = "input"
    /\ Has(tree0, kSub)
    /\ \E old_id \in {idA, idB}, new_id \in {idC, idA2} :
         /\ tree' = traverse_and_update(tree0, old_id, new_id)
         /\ applied' = <<(<<old_id, new_id>>)>>
    /\ pc' = "renamed"
    /\ UNCHANGED <<tree0, pairs, index, listed_ids>>
    /\ UNCHANGED runVars

\* set_default_deletion_policy(template, resource_ids); the template has a
\* Resources object (template["Resources"].as_object_mut().unwrap()).
SetDefaultDeletionPolicy ==
    /\ pc = "input"
    /\ Has(tree0, kResources) /\ IsObj(Get(tree0, kResources))
    /\ \A r \in DOMAIN ResourcesOf(tree0) :
          IsObj(ResourcesOf(tree0)[r]) => kType \in DOMAIN ResourcesOf(tree0)[r].v
    /\ \E ids \in SUBSET {idA, idB, idC} :
         /\ listed_ids' = ids
         /\ tree' = set_default_deletion_policy(tree0, ids)
    /\ pc' = "defaulted"
    /\ UNCHANGED <<tree0, pairs, applied, index>>
    /\ UNCHANGED runVars

\* traverse_and_update on a template, for one pair old -> new.
RenameInTemplate ==
    /\ pc = "input"
    /\ tree0 \in ContractTemplates
    /\ \E old_id \in {idA, idB} :
         /\ tree' = traverse_and_update(tree0, old_id, idC)
         /\ applied' = <<(<<old_id, idC>>)>>
    /\ pc' = "pair_applied"
    /\ UNCHANGED <<tree0, pairs, index, listed_ids>>
    /\ UNCHANGED runVars

\* compute_dependency_markers for a list of resources of the template.
ComputeDependencyMarkers ==
    /\ pc = "input"
    /\ tree0 \in MarkerTemplates
    /\ \E resources \in (SUBSET {idA, idB}) \ {{}} :
         /\ listed_ids' = resources
         /\ index' = compute_dependency_markers(resources, tree0)
    /\ pc' = "marked"
    /\ UNCHANGED <<tree, tree0, pairs, applied>>
    /\ UNCHANGED runVars

\* validate_move_references for a move that keeps the ids; `applied` holds
\* the errors vector.
ValidateMoveReferences ==
    /\ pc = "input"
    /\ tree0 \in MarkerTemplates
    /\ \E ids \in (SUBSET {idA, idB}) \ {{}} :
         /\ listed_ids' = ids
         /\ applied' = validate_move_references(tree0, [k \in ids |-> k])
    /\ pc' = "validated"
    /\ UNCHANGED <<tree, tree0, pairs, index>>
    /\ UNCHANGED runVars

ContractNext ==
    \/ ValidateMoveReferences
    \/ ComputeDependencyMarkers
    \/ RenameInTemplate
    \/ FindAllReferences
    \/ RewriteWithEmptyMapping
    \/ RenameInSub
    \/ SetDefaultDeletionPolicy

SpecContracts == ContractInit /\ [][ContractNext]_vars

----------------------------------------------------------------------------
(* run(): inputs *)

\* The polling loops have no counter of their own: a run is given at most
\* MaxPolls in-progress statuses, over all its loops.
MaxPolls == 1

RunBodiesA ==
    {Plain(tQueue), Decl(tQueue, RefTo(idB)), Decl(tQueue, GetAttDot(idB)),
     Decl(tQueue, RefTo(idP)), Decl(tQueue, SubStr(idB))}

RunBodiesB == {Plain(tBucket), Decl(tBucket, RefTo(idA))}

RunOutputs == {EmptyMap, Key1(<<"Out">>, Obj(Key1(<<"Value">>, RefTo(idA))))}

RunParameters == Key1(idP, Obj(Key1(kType, Str(<<"String">>))))

\* Source templates: declarations A and B (or A alone), one parameter P.
RunSources ==
    {TemplateOf(Key1(idA, a) @@ Key1(idB, b), RunParameters, o) :
        a \in RunBodiesA, b \in RunBodiesB, o \in RunOutputs}
    \cup {TemplateOf(Key1(idA, Plain(tQueue)), RunParameters, EmptyMap),
          TemplateOf(Key1(idA, Plain(tQueue)) @@ Key1(idB, Decl(tBucket, RefTo(idP))),
                     RunParameters, EmptyMap),
          TemplateOf(Key1(idA, Decl(tQueue, RefTo(idP)))
                        @@ Key1(idB, Decl(tBucket, SubStr(idP))),
                     RunParameters, EmptyMap),
          TemplateOf(Key1(idA, Retained(Plain(tQueue))) @@ Key1(idB, Plain(tBucket)),
                     RunParameters, EmptyMap)}

\* Target templates: empty, or one declaration C referencing the target's
\* parameter A.
RunTargets ==
    {Template(TemplateOf(EmptyMap, EmptyMap, EmptyMap), "Yaml"),
     Template(TemplateOf(Key1(idC, Decl(tBucket, RefTo(idA))),
                         Key1(idA, Obj(Key1(kType, Str(<<"String">>)))), EmptyMap),
              "Json")}

RunMappings == Mappings({idA, idB}, {idA, idB, idC})

\* How the mapping is given and which resources the stack lists.  For most
\* templates: --resource tokens, and the stack lists the declarations of the
\* template.  For three templates also a migration spec, a stack that lists
\* only A (B is of an unsupported type) and a stack that lists A and B (the
\* template comes from --source-template and lacks B).
RunSpecSources ==
    {TemplateOf(Key1(idA, Plain(tQueue)), RunParameters, EmptyMap),
     TemplateOf(Key1(idA, Plain(tQueue)) @@ Key1(idB, Decl(tBucket, RefTo(idP))),
                RunParameters, EmptyMap),
     TemplateOf(Key1(idA, Decl(tQueue, RefTo(idP))) @@ Key1(idB, Decl(tBucket, SubStr(idP))),
                RunParameters, EmptyMap)}

RunSelections(c) ==
    IF c \in RunSpecSources
    THEN BOOLEAN \X {DOMAIN ResourcesOf(c), {idA}, {idA, idB}}
    ELSE {<<FALSE, DOMAIN ResourcesOf(c)>>}

OtherFormat(f) == IF f = "Json" THEN "Yaml" ELSE "Json"

\* The orders in which a HashMap with these keys can yield them.
Orders(keys) ==
    {o \in [1..Cardinality(keys) -> keys] : \A k \in keys : \E i \in DOMAIN o : o[i] = k}

EngineIdle ==
    /\ tree = Null /\ tree0 = Null /\ pairs = {} /\ applied = <<>> /\ index = EmptyMap
    /\ listed_ids = {}

Init ==
    /\ pc = "start"
    /\ source_stack = "S1"
    /\ target_stack \in {"S1", "S2"}
    /\ args_mode \in (IF target_stack = source_stack THEN {"Refactor"}
                      ELSE {"Refactor", "Import"})
    /\ args_export \in BOOLEAN
    /\ template_target \in RunTargets
    /\ \E c \in RunSources :
          /\ template_source = Template(c, OtherFormat(template_target.format))
          /\ \E selection \in RunSelections(c) :
                /\ args_migration_spec = selection[1]
                /\ resource_refs = selection[2]
    /\ new_logical_ids_map \in RunMappings
    /\ order \in Orders(DOMAIN new_logical_ids_map)
    /\ built = EmptyMap
    /\ calls = <<>>
    /\ disk = <<>>
    /\ polls = 0
    /\ observed = NoStatus
    /\ result = NoResult
    /\ EngineIdle

is_cross_stack == source_stack # target_stack

----------------------------------------------------------------------------
(* External collaborators *)

MutatingOps == {"CreateStackRefactor", "ExecuteStackRefactor", "UpdateStack",
                "CreateChangeSet", "ExecuteChangeSet"}

\* One request to CloudFormation and whether it returned Ok ("ok") or Err.
Call(op, stack, body) == [op |-> op, stack |-> stack, body |-> body, reply |-> "ok"]
Failing(call) == [call EXCEPT !.reply = "error"]
NoBody == [text_of |-> Null, syntax |-> ""]

\* validate_template serializes the content with serde_json::to_string.
ValidateCall(content) ==
    Call("ValidateTemplate", "", [text_of |-> content, syntax |-> "Json"])

\* One file-system operation and whether it succeeded.
TemplateFile(dir, stack, operation, suffix, template, ok) ==
    [kind |-> "template", dir |-> dir, stack |-> stack, operation |-> operation,
     suffix |-> suffix, body |-> to_string(template), ok |-> ok]

\* write_error_context: failing operation, stack names, the old -> new mapping.
ContextFile(operation, error, source, target, resources, ok) ==
    [kind |-> "context", dir |-> "cwd", operation |-> operation, error |-> error,
     source |-> source, target |-> target, resources |-> resources, ok |-> ok]

\* std::env::current_dir() / validate_output_directory returning Err.
DirFailure(dir, operation) ==
    [kind |-> "directory", dir |-> dir, operation |-> operation, ok |-> FALSE]

\* export_templates on templates (a sequence of <<Template, suffix>>): the
\* directory is resolved, then the files are written in order, stopping at the
\* first that cannot be written (after `written` files).
ExportOps(templates, dir, stack, operation, dir_ok, written) ==
    IF ~dir_ok THEN <<DirFailure(dir, operation)>>
    ELSE [i \in 1..(IF written < Len(templates) THEN written + 1 ELSE written) |->
            TemplateFile(dir, stack, operation, templates[i][2], templates[i][1],
                         i <= written)]

\* export_templates returned Ok.
ExportOk(templates, dir_ok, written) == dir_ok /\ written = Len(templates)

Fail(error, detail) ==
    /\ pc' = "Failed"
    /\ result' = Err(error, detail)

----------------------------------------------------------------------------
(* run(): selection and pre-checks *)

Inputs == <<source_stack, target_stack, args_mode, args_export, args_migration_spec,
            resource_refs, template_source, template_target, new_logical_ids_map, order>>

\* The resources of the stack that the mapping names (filter_resources).
selected_resources == resource_refs \cap DOMAIN new_logical_ids_map

\* The mapping and the selected resources.  A migration spec is checked against
\* the Resources of the source template (validate_migration_spec_resources);
\* --resource tokens are checked against the resources the stack lists.
SelectResources ==
    /\ pc = "start"
    /\ IF args_migration_spec
       THEN LET invalid_ids ==
                    (DOMAIN new_logical_ids_map) \ DOMAIN ResourcesOf(template_source.content)
            IN IF invalid_ids # {}
               THEN Fail("invalid_migration_spec", SetToSeq(invalid_ids))
               ELSE IF selected_resources = {}
                    THEN Fail("no_resources_selected", <<>>)
                    ELSE pc' = "selected" /\ UNCHANGED result
       ELSE LET non_existing_ids == (DOMAIN new_logical_ids_map) \ resource_refs
            IN IF non_existing_ids # {}
               THEN Fail("resources_do_not_exist", SetToSeq(non_existing_ids))
               ELSE pc' = "selected" /\ UNCHANGED result
    /\ UNCHANGED <<built, calls, disk, polls, observed>>
    /\ UNCHANGED Inputs
    /\ UNCHANGED engineVars

\* Same-stack operation: every pair must rename, no new id may exist already.
SameStackChecks ==
    /\ pc = "selected"
    /\ ~is_cross_stack
    /\ LET m == new_logical_ids_map
           has_any_rename == \E k \in DOMAIN m : k # m[k]
           duplicate_ids == {k \in DOMAIN m : k = m[k]}
           existing_resources == DOMAIN ResourcesOf(template_source.content)
           collisions == {k \in DOMAIN m : m[k] \in existing_resources /\ k # m[k]}
       IN IF ~has_any_rename THEN Fail("no_rename", <<>>)
          ELSE IF duplicate_ids # {} THEN Fail("not_renamed", SetToSeq(duplicate_ids))
          ELSE IF collisions # {} THEN Fail("name_collision", SetToSeq(collisions))
          ELSE pc' = "checked" /\ UNCHANGED result
    /\ UNCHANGED <<built, calls, disk, polls, observed>>
    /\ UNCHANGED Inputs
    /\ UNCHANGED engineVars

\* if source_stack != target_stack { validate_move_references(..)?; }
ValidateReferences ==
    /\ pc = "selected"
    /\ is_cross_stack
    /\ LET errors == validate_move_references(template_source.content, new_logical_ids_map)
       IN IF errors # <<>>
          THEN Fail("dangling_references", errors)
          ELSE pc' = "checked" /\ UNCHANGED result
    /\ UNCHANGED <<built, calls, disk, polls, observed>>
    /\ UNCHANGED Inputs
    /\ UNCHANGED engineVars

----------------------------------------------------------------------------
(* run(): dry-run export, and the failure-recovery files *)

\* A recovery block: export_templates(&templates, None, ..) whose error is
\* dropped, then write_error_context when current_dir() resolves.
RecoveryOps(templates, operation, context_operation, error, target, cwd_ok, written, context_ok) ==
    ExportOps(templates, "cwd", source_stack, operation, cwd_ok, written)
    \o (IF cwd_ok
        THEN <<ContextFile(context_operation, error, source_stack, target,
                           new_logical_ids_map, context_ok)>>
        ELSE <<DirFailure("cwd", context_operation)>>)

\* A dry-run's export_templates(&templates, args.out_dir, ..)?: all files are
\* written and the run ends Ok, or the export fails and its error is returned.
ExportAndReturn(templates, operation) ==
    \E dir_ok \in BOOLEAN, written \in 0..Len(templates) :
        /\ disk' = disk \o ExportOps(templates, "out_dir", source_stack, operation,
                                     dir_ok, written)
        /\ IF ExportOk(templates, dir_ok, written)
           THEN pc' = "Exported" /\ result' = Ok
           ELSE Fail("export_failed", <<>>)

\* Same-stack rename, --export: writes template_source under the suffix
\* "refactored" and returns.
ExportSameStack ==
    /\ pc = "checked"
    /\ ~is_cross_stack
    /\ args_export
    /\ ExportAndReturn(<<<<template_source, "refactored">>>>, "refactor-same-stack")
    /\ UNCHANGED <<built, calls, polls, observed>>
    /\ UNCHANGED Inputs
    /\ UNCHANGED engineVars

----------------------------------------------------------------------------
(* refactor_stack_resources (same stack) *)

\* A same-stack refactoring that would not look at --export.
RefactorSameStackBuild_IgnoringExport ==
    /\ pc = "checked"
    /\ ~is_cross_stack
    /\ built' = Key1("refactored",
                     Template(RenamedTemplate(template_source.content,
                                              new_logical_ids_map, order),
                              template_source.format))
    /\ pc' = "same_validate"
    /\ UNCHANGED <<calls, disk, polls, observed, result>>
    /\ UNCHANGED Inputs
    /\ UNCHANGED engineVars

\* Step 1: the renamed template with updated references.
RefactorSameStackBuild ==
    /\ pc = "checked"
    /\ ~is_cross_stack
    /\ ~args_export
    /\ built' = Key1("refactored",
                     Template(RenamedTemplate(template_source.content,
                                              new_logical_ids_map, order),
                              template_source.format))
    /\ pc' = "same_validate"
    /\ UNCHANGED <<calls, disk, polls, observed, result>>
    /\ UNCHANGED Inputs
    /\ UNCHANGED engineVars

\* A same-stack refactoring that would create the stack refactor first and
\* validate the template afterwards.
RefactorSameStackValidate_AfterCreate ==
    /\ pc = "same_validate"
    /\ \/ /\ calls' = calls \o <<Call("CreateStackRefactor", source_stack, NoBody),
                                 ValidateCall(built["refactored"].content)>>
          /\ pc' = "create"
          /\ UNCHANGED <<disk, result>>
       \/ \E cwd_ok \in BOOLEAN, written \in 0..1, context_ok \in BOOLEAN :
            /\ calls' = calls \o <<Call("CreateStackRefactor", source_stack, NoBody),
                                   Failing(ValidateCall(built["refactored"].content))>>
            /\ disk' = disk \o RecoveryOps(<<<<built["refactored"], "refactored">>>>,
                                  "error-refactor-same-stack",
                                  "refactor-same-stack", "template_invalid", "",
                                  cwd_ok, written, context_ok)
            /\ Fail("template_invalid", <<>>)
    /\ UNCHANGED <<built, polls, observed>>
    /\ UNCHANGED Inputs
    /\ UNCHANGED engineVars

\* validate_template(updated_template); on error save the template and the
\* error context (best effort) and return the validation error.
RefactorSameStackValidate ==
    /\ pc = "same_validate"
    /\ \/ /\ calls' = Append(calls, ValidateCall(built["refactored"].content))
          /\ pc' = "create"
          /\ UNCHANGED <<disk, result>>
       \/ \E cwd_ok \in BOOLEAN, written \in 0..1, context_ok \in BOOLEAN :
            /\ calls' = Append(calls, Failing(ValidateCall(built["refactored"].content)))
            /\ disk' = disk \o RecoveryOps(<<<<built["refactored"], "refactored">>>>,
                                  "error-refactor-same-stack",
                                  "refactor-same-stack", "template_invalid", "",
                                  cwd_ok, written, context_ok)
            /\ Fail("template_invalid", <<>>)
    /\ UNCHANGED <<built, polls, observed>>
    /\ UNCHANGED Inputs
    /\ UNCHANGED engineVars

----------------------------------------------------------------------------
(* refactor_stack_resources_cross_stack *)

\* --export in refactor mode: the two templates, written to disk.
ExportCrossStack ==
    /\ pc = "checked"
    /\ is_cross_stack
    /\ args_mode = "Refactor"
    /\ args_export
    /\ LET m == new_logical_ids_map
           source_without_resources == remove_resources(template_source.content, DOMAIN m)
           target_with_resources ==
               add_resources(template_target.content, template_source.content, m, order)[2]
           source_final == update_template_references(source_without_resources, m, order)
           target_final == update_template_references(target_with_resources, m, order)
       IN ExportAndReturn(<<<<Template(source_final, template_source.format), "source">>,
                            <<Template(target_final, template_target.format), "target">>>>,
                          "refactor-cross-stack")
    /\ UNCHANGED <<built, calls, polls, observed>>
    /\ UNCHANGED Inputs
    /\ UNCHANGED engineVars

\* validate_move_references again, then steps 1-3: source minus the moved
\* resources, target plus the moved resources, references updated in both.
RefactorCrossStackBuild ==
    /\ pc = "checked"
    /\ is_cross_stack
    /\ args_mode = "Refactor"
    /\ ~args_export
    /\ LET m == new_logical_ids_map
           errors == validate_move_references(template_source.content, m)
           source_without_resources == remove_resources(template_source.content, DOMAIN m)
           target_with_resources ==
               add_resources(template_target.content, template_source.content, m, order)[2]
           source_final == update_template_references(source_without_resources, m, order)
           target_final == update_template_references(target_with_resources, m, order)
       IN IF errors # <<>>
          THEN Fail("dangling_references", errors) /\ UNCHANGED built
          ELSE /\ built' = Key1("source", Template(source_final, template_source.format))
                           @@ Key1("target", Template(target_final, template_target.format))
               /\ pc' = "cross_validate"
               /\ UNCHANGED result
    /\ UNCHANGED <<calls, disk, polls, observed>>
    /\ UNCHANGED Inputs
    /\ UNCHANGED engineVars

\* Step 4: both templates are validated; if either fails, both are saved with
\* the error context (best effort) and the validation error is returned.
RefactorCrossStackValidate ==
    /\ pc = "cross_validate"
    /\ \/ /\ calls' = calls \o <<ValidateCall(built["source"].content),
                                 ValidateCall(built["target"].content)>>
          /\ pc' = "create"
          /\ UNCHANGED <<disk, result>>
       \/ \E cwd_ok \in BOOLEAN, written \in 0..2, context_ok \in BOOLEAN,
             source_validation \in BOOLEAN, target_validation \in BOOLEAN :
            /\ ~(source_validation /\ target_validation)
            /\ calls' = calls \o
                 <<IF source_validation THEN ValidateCall(built["source"].content)
                   ELSE Failing(ValidateCall(built["source"].content)),
                   IF target_validation THEN ValidateCall(built["target"].content)
                   ELSE Failing(ValidateCall(built["target"].content))>>
            /\ disk' = disk \o RecoveryOps(<<<<built["source"], "source">>,
                                             <<built["target"], "target">>>>,
                                  "error-refactor-cross-stack",
                                  "refactor-cross-stack", "template_invalid",
                                  target_stack, cwd_ok, written, context_ok)
            /\ Fail("template_invalid", <<>>)
    /\ UNCHANGED <<built, polls, observed>>
    /\ UNCHANGED Inputs
    /\ UNCHANGED engineVars

----------------------------------------------------------------------------
(* The stack-refactor lifecycle, the same code in refactor_stack_resources   *)
(* and refactor_stack_resources_cross_stack.                                 *)

\* The stack definitions of the request: each built template in its own format.
StackDefinitions ==
    IF is_cross_stack
    THEN <<[stack |-> source_stack, body |-> to_string(built["source"])],
           [stack |-> target_stack, body |-> to_string(built["target"])]>>
    ELSE <<[stack |-> source_stack, body |-> to_string(built["refactored"])]>>

\* create_stack_refactor(..).send().await.map_err(..)?
CreateStackRefactor ==
    /\ pc = "create"
    /\ LET request == Call("CreateStackRefactor", source_stack, StackDefinitions)
       IN \/ calls' = Append(calls, request) /\ pc' = "poll_create" /\ UNCHANGED result
          \/ calls' = Append(calls, Failing(request)) /\ Fail("create_stack_refactor", <<>>)
    /\ UNCHANGED <<built, disk, polls, observed>>
    /\ UNCHANGED Inputs
    /\ UNCHANGED engineVars

DescribeStackRefactor == Call("DescribeStackRefactor", source_stack, NoBody)

\* What status() / execution_status() can carry, as the two matches tell them
\* apart: the success status, the failure statuses, and anything else
\* (a status in progress, or no status at all).
CreateStatuses == {"CREATE_COMPLETE", "CREATE_FAILED", "FAILED", "CREATE_IN_PROGRESS", "None"}
ExecutionStatuses ==
    {"EXECUTE_COMPLETE", "EXECUTE_FAILED", "FAILED", "EXECUTE_IN_PROGRESS", "None"}

\* A creation poll that would go on to execute on any status that is not a
\* failure.
PollCreate_NotWaiting ==
    /\ pc = "poll_create"
    /\ \/ /\ calls' = Append(calls, Failing(DescribeStackRefactor))
          /\ Fail("describe_stack_refactor", <<>>) /\ UNCHANGED polls /\ observed' = NoStatus
       \/ \E status \in CreateStatuses :
            /\ calls' = Append(calls, DescribeStackRefactor)
            /\ observed' = Observing("status", status)
            /\ IF status \in {"CREATE_FAILED", "FAILED"}
               THEN Fail("refactor_validation_failed", <<>>) /\ UNCHANGED polls
               ELSE pc' = "execute" /\ UNCHANGED polls /\ UNCHANGED result
    /\ UNCHANGED <<built, disk>>
    /\ UNCHANGED Inputs
    /\ UNCHANGED engineVars

\* loop { describe_stack_refactor; match status() { .. } }
PollCreate ==
    /\ pc = "poll_create"
    /\ \/ /\ calls' = Append(calls, Failing(DescribeStackRefactor))
          /\ Fail("describe_stack_refactor", <<>>) /\ UNCHANGED polls /\ observed' = NoStatus
       \/ \E status \in CreateStatuses :
            /\ calls' = Append(calls, DescribeStackRefactor)
            /\ observed' = Observing("status", status)
            /\ CASE status = "CREATE_COMPLETE" ->
                    pc' = "execute" /\ UNCHANGED polls /\ UNCHANGED result
              [] status \in {"CREATE_FAILED", "FAILED"} ->
                    Fail("refactor_validation_failed", <<>>) /\ UNCHANGED polls
              [] OTHER ->
                    polls < MaxPolls /\ polls' = polls + 1 /\ UNCHANGED <<pc, result>>
    /\ UNCHANGED <<built, disk>>
    /\ UNCHANGED Inputs
    /\ UNCHANGED engineVars

\* execute_stack_refactor(..).send().await.map_err(..)?
ExecuteStackRefactor ==
    /\ pc = "execute"
    /\ LET request == Call("ExecuteStackRefactor", source_stack, NoBody)
       IN \/ calls' = Append(calls, request) /\ pc' = "poll_execute" /\ UNCHANGED result
          \/ calls' = Append(calls, Failing(request)) /\ Fail("execute_stack_refactor", <<>>)
    /\ observed' = NoStatus   \* the status was local to the wait that returned
    /\ UNCHANGED <<built, disk, polls>>
    /\ UNCHANGED Inputs
    /\ UNCHANGED engineVars

\* loop { describe_stack_refactor; match execution_status() { .. } }
PollExecute ==
    /\ pc = "poll_execute"
    /\ \/ /\ calls' = Append(calls, Failing(DescribeStackRefactor))
          /\ Fail("describe_stack_refactor", <<>>) /\ UNCHANGED polls /\ observed' = NoStatus
       \/ \E status \in ExecutionStatuses :
            /\ calls' = Append(calls, DescribeStackRefactor)
            /\ observed' = Observing("execution_status", status)
            /\ CASE status = "EXECUTE_COMPLETE" ->
                    pc' = "Completed" /\ result' = Ok /\ UNCHANGED polls
              [] status \in {"EXECUTE_FAILED", "FAILED"} ->
                    Fail("refactor_execution_failed", <<>>) /\ UNCHANGED polls
              [] OTHER ->
                    polls < MaxPolls /\ polls' = polls + 1 /\ UNCHANGED <<pc, result>>
    /\ UNCHANGED <<built, disk>>
    /\ UNCHANGED Inputs
    /\ UNCHANGED engineVars

----------------------------------------------------------------------------
(* run(): legacy import flow *)

\* A parameter block that would return at the first resource it finds.
blocked_resources_with_params_FirstOnly ==
    LET all_references == find_all_references(template_source.content)
        parameter_names == ParameterNames(template_source.content)
        depends_on_params(old_id) ==
            IF old_id \notin selected_resources THEN {}
            ELSE (IF old_id \in DOMAIN all_references THEN all_references[old_id] ELSE {})
                 \cap parameter_names
        blocked == Flatten([i \in 1..Len(order) |->
                     IF depends_on_params(order[i]) # {}
                     THEN <<[id |-> order[i], params |-> depends_on_params(order[i])]>>
                     ELSE <<>>])
    IN IF blocked = <<>> THEN <<>> ELSE <<blocked[1]>>

\* The moving resources that reference a parameter of the source template,
\* each with the parameters it references, in the order of the map's keys.
blocked_resources_with_params ==
    LET all_references == find_all_references(template_source.content)
        parameter_names == ParameterNames(template_source.content)
        depends_on_params(old_id) ==
            IF old_id \notin selected_resources THEN {}
            ELSE (IF old_id \in DOMAIN all_references THEN all_references[old_id] ELSE {})
                 \cap parameter_names
    IN Flatten([i \in 1..Len(order) |->
                  IF depends_on_params(order[i]) # {}
                  THEN <<[id |-> order[i], params |-> depends_on_params(order[i])]>>
                  ELSE <<>>])

\* Import mode blocks resources that depend on stack parameters.
ImportParamBlock ==
    /\ pc = "checked"
    /\ is_cross_stack
    /\ args_mode = "Import"
    /\ IF blocked_resources_with_params # <<>>
       THEN Fail("depends_on_parameters", blocked_resources_with_params)
       ELSE pc' = "import_build" /\ UNCHANGED result
    /\ UNCHANGED <<built, calls, disk, polls, observed>>
    /\ UNCHANGED Inputs
    /\ UNCHANGED engineVars

\* retained / removed source templates, target with deletion policy / final.
ImportBuild ==
    /\ pc = "import_build"
    /\ LET m == new_logical_ids_map
           template_retained == retain_resources(template_source.content, DOMAIN m)
           template_removed == remove_resources(template_source.content, DOMAIN m)
           added == add_resources(template_target.content, template_source.content,
                                  m, order)
           template_target_with_deletion_policy ==
               update_template_references(added[1], m, order)
           template_target_final == update_template_references(added[2], m, order)
       IN built' = Key1("retained", Template(template_retained, template_source.format))
                   @@ Key1("removed", Template(template_removed, template_source.format))
                   @@ Key1("target-with-policy",
                           Template(template_target_with_deletion_policy,
                                    template_target.format))
                   @@ Key1("target-final",
                           Template(template_target_final, template_target.format))
    /\ pc' = "import_validate"
    /\ UNCHANGED <<calls, disk, polls, observed, result>>
    /\ UNCHANGED Inputs
    /\ UNCHANGED engineVars

ImportValidationOrder == <<"retained", "removed", "target-final", "target-with-policy">>
ImportSaveOrder == <<"retained", "removed", "target-with-policy", "target-final">>

\* for template in [retained, removed, target, target_with_deletion_policy]:
\* validate_template; the first failure saves the four templates and the error
\* context and returns.  `failing` is the template that fails, 0 for none.
ImportValidate ==
    /\ pc = "import_validate"
    /\ \E failing \in 0..Len(ImportValidationOrder) :
         /\ calls' = calls \o
                [i \in 1..(IF failing = 0 THEN Len(ImportValidationOrder) ELSE failing) |->
                    IF i = failing
                    THEN Failing(ValidateCall(built[ImportValidationOrder[i]].content))
                    ELSE ValidateCall(built[ImportValidationOrder[i]].content)]
         /\ IF failing = 0
            THEN pc' = "import_validated" /\ UNCHANGED <<disk, result>>
            ELSE \E cwd_ok \in BOOLEAN, written \in 0..Len(ImportSaveOrder),
                    context_ok \in BOOLEAN :
                   \* current_dir()? returns before write_error_context
                   /\ disk' = disk \o RecoveryOps(
                                  [i \in 1..Len(ImportSaveOrder) |->
                                      <<built[ImportSaveOrder[i]], ImportSaveOrder[i]>>],
                                  "error-import", "import",
                                  "template_invalid", target_stack,
                                  cwd_ok, written, context_ok)
                   \* let context_path = std::env::current_dir()?.join(..)
                   /\ IF cwd_ok THEN Fail("template_invalid", <<>>)
                      ELSE Fail("current_dir", <<>>)
    /\ UNCHANGED <<built, polls, observed>>
    /\ UNCHANGED Inputs
    /\ UNCHANGED engineVars

\* --export in import mode: the four templates, written to disk.
ImportExport ==
    /\ pc = "import_validated"
    /\ args_export
    /\ ExportAndReturn(<<<<built["retained"], "source-retained">>,
                         <<built["removed"], "source-removed">>,
                         <<built["target-with-policy"], "target-with-deletion-policy">>,
                         <<built["target-final"], "target-final">>>>, "import")
    /\ UNCHANGED <<built, calls, polls, observed>>
    /\ UNCHANGED Inputs
    /\ UNCHANGED engineVars

\* update_stack(client, stack, template, format)
UpdateStackCall(stack, label) == Call("UpdateStack", stack, to_string(built[label]))

\* if template_source_str != template_retained_str { update_stack(retained) }
ImportUpdateRetained ==
    /\ pc = "import_validated"
    /\ ~args_export
    /\ IF to_string(template_source) # to_string(built["retained"])
       THEN LET request == UpdateStackCall(source_stack, "retained")
            IN \/ calls' = Append(calls, request) /\ pc' = "wait_retained"
                  /\ UNCHANGED result
               \/ calls' = Append(calls, Failing(request)) /\ Fail("update_stack", <<>>)
       ELSE pc' = "update_removed" /\ UNCHANGED <<calls, result>>
    /\ UNCHANGED <<built, disk, polls, observed>>
    /\ UNCHANGED Inputs
    /\ UNCHANGED engineVars

ImportUpdateRemoved ==
    /\ pc = "update_removed"
    /\ LET request == UpdateStackCall(source_stack, "removed")
       IN \/ calls' = Append(calls, request) /\ pc' = "wait_removed" /\ UNCHANGED result
          \/ calls' = Append(calls, Failing(request)) /\ Fail("update_stack", <<>>)
    /\ observed' = NoStatus   \* the status was local to the wait that returned
    /\ UNCHANGED <<built, disk, polls>>
    /\ UNCHANGED Inputs
    /\ UNCHANGED engineVars

\* create_changeset: get_template_summary, then create_change_set (Import).
CreateChangeset ==
    /\ pc = "create_changeset"
    /\ LET summary == Call("GetTemplateSummary", "", to_string(built["target-with-policy"]))
           create == Call("CreateChangeSet", target_stack,
                          to_string(built["target-with-policy"]))
       IN \/ calls' = Append(calls, Failing(summary)) /\ Fail("get_template_summary", <<>>)
          \/ calls' = calls \o <<summary, Failing(create)>>
             /\ Fail("create_change_set", <<>>)
          \/ calls' = calls \o <<summary, create>> /\ pc' = "wait_changeset"
             /\ UNCHANGED result
    /\ observed' = NoStatus   \* the status was local to the wait that returned
    /\ UNCHANGED <<built, disk, polls>>
    /\ UNCHANGED Inputs
    /\ UNCHANGED engineVars

ChangeSetStatuses == {"CREATE_PENDING", "CREATE_IN_PROGRESS", "CREATE_COMPLETE",
                      "DELETE_COMPLETE", "FAILED", "None"}

DescribeChangeSet == Call("DescribeChangeSet", target_stack, NoBody)

\* wait_for_changeset_created, one get_changeset_status per step.
WaitForChangesetCreated ==
    /\ pc = "wait_changeset"
    /\ \/ /\ calls' = Append(calls, Failing(DescribeChangeSet))
          /\ Fail("describe_change_set", <<>>) /\ UNCHANGED polls /\ observed' = NoStatus
       \/ \E status \in ChangeSetStatuses :
            /\ calls' = Append(calls, DescribeChangeSet)
            /\ observed' = Observing("status", status)
            /\ CASE status = "FAILED" ->
                    Fail("changeset_failed", <<>>) /\ UNCHANGED polls
              [] status \in {"CREATE_IN_PROGRESS", "CREATE_PENDING"} ->
                    polls < MaxPolls /\ polls' = polls + 1 /\ UNCHANGED <<pc, result>>
              [] status \in {"CREATE_COMPLETE", "None"} ->
                    pc' = "execute_changeset" /\ UNCHANGED polls /\ UNCHANGED result
              [] OTHER ->
                    Fail("changeset_creation_failed", <<>>) /\ UNCHANGED polls
    /\ UNCHANGED <<built, disk>>
    /\ UNCHANGED Inputs
    /\ UNCHANGED engineVars

ExecuteChangeset ==
    /\ pc = "execute_changeset"
    /\ LET request == Call("ExecuteChangeSet", target_stack, NoBody)
       IN \/ calls' = Append(calls, request) /\ pc' = "wait_imported" /\ UNCHANGED result
          \/ calls' = Append(calls, Failing(request)) /\ Fail("execute_change_set", <<>>)
    /\ observed' = NoStatus   \* the status was local to the wait that returned
    /\ UNCHANGED <<built, disk, polls>>
    /\ UNCHANGED Inputs
    /\ UNCHANGED engineVars

ImportUpdateFinal ==
    /\ pc = "update_final"
    /\ LET request == UpdateStackCall(target_stack, "target-final")
       IN \/ calls' = Append(calls, request) /\ pc' = "wait_final" /\ UNCHANGED result
          \/ calls' = Append(calls, Failing(request)) /\ Fail("update_stack", <<>>)
    /\ observed' = NoStatus   \* the status was local to the wait that returned
    /\ UNCHANGED <<built, disk, polls>>
    /\ UNCHANGED Inputs
    /\ UNCHANGED engineVars

StackStatuses == {"UPDATE_IN_PROGRESS", "UPDATE_COMPLETE_CLEANUP_IN_PROGRESS",
                  "IMPORT_IN_PROGRESS", "UPDATE_COMPLETE", "IMPORT_COMPLETE",
                  "UPDATE_ROLLBACK_COMPLETE", "None"}

\* Where run() continues after each wait_for_stack_update_completion(..)?.
AfterWait ==
    [wait_retained |-> "update_removed", wait_removed |-> "create_changeset",
     wait_imported |-> "update_final", wait_final |-> "Completed"]

WaitedStack == IF pc \in {"wait_retained", "wait_removed"} THEN source_stack
               ELSE target_stack

DescribeStacks == Call("DescribeStacks", WaitedStack, NoBody)

\* A wait that would return Ok(()) on every status that is not in progress.
WaitForStackUpdateCompletion_IgnoringFailure ==
    /\ pc \in DOMAIN AfterWait
    /\ \/ /\ calls' = Append(calls, Failing(DescribeStacks))
          /\ Fail("describe_stacks", <<>>) /\ UNCHANGED polls /\ observed' = NoStatus
       \/ \E status \in StackStatuses :
            /\ calls' = Append(calls, DescribeStacks)
            /\ observed' = Observing("stack_status", status)
            /\ CASE status \in {"UPDATE_IN_PROGRESS", "UPDATE_COMPLETE_CLEANUP_IN_PROGRESS",
                             "IMPORT_IN_PROGRESS"} ->
                    polls < MaxPolls /\ polls' = polls + 1 /\ UNCHANGED <<pc, result>>
              [] OTHER ->
                    /\ pc' = AfterWait[pc]
                    /\ UNCHANGED polls
                    /\ result' = IF AfterWait[pc] = "Completed" THEN Ok ELSE result
    /\ UNCHANGED <<built, disk>>
    /\ UNCHANGED Inputs
    /\ UNCHANGED engineVars

\* wait_for_stack_update_completion, one get_stack_status per step.
WaitForStackUpdateCompletion ==
    /\ pc \in DOMAIN AfterWait
    /\ \/ /\ calls' = Append(calls, Failing(DescribeStacks))
          /\ Fail("describe_stacks", <<>>) /\ UNCHANGED polls /\ observed' = NoStatus
       \/ \E status \in StackStatuses :
            /\ calls' = Append(calls, DescribeStacks)
            /\ observed' = Observing("stack_status", status)
            /\ CASE status \in {"UPDATE_IN_PROGRESS", "UPDATE_COMPLETE_CLEANUP_IN_PROGRESS",
                             "IMPORT_IN_PROGRESS"} ->
                    polls < MaxPolls /\ polls' = polls + 1 /\ UNCHANGED <<pc, result>>
              [] status \in {"UPDATE_COMPLETE", "IMPORT_COMPLETE", "None"} ->
                    /\ pc' = AfterWait[pc]
                    /\ UNCHANGED polls
                    /\ result' = IF AfterWait[pc] = "Completed" THEN Ok ELSE result
              [] OTHER ->
                    Fail("stack_update_failed", <<>>) /\ UNCHANGED polls
    /\ UNCHANGED <<built, disk>>
    /\ UNCHANGED Inputs
    /\ UNCHANGED engineVars

----------------------------------------------------------------------------

Next ==
    \/ SelectResources
    \/ SameStackChecks
    \/ ValidateReferences
    \/ ExportSameStack
    \/ RefactorSameStackBuild
    \/ RefactorSameStackValidate
    \/ ExportCrossStack
    \/ RefactorCrossStackBuild
    \/ RefactorCrossStackValidate
    \/ CreateStackRefactor
    \/ PollCreate
    \/ ExecuteStackRefactor
    \/ PollExecute
    \/ ImportParamBlock
    \/ ImportBuild
    \/ ImportValidate
    \/ ImportExport
    \/ ImportUpdateRetained
    \/ ImportUpdateRemoved
    \/ CreateChangeset
    \/ WaitForChangesetCreated
    \/ ExecuteChangeset
    \/ ImportUpdateFinal
    \/ WaitForStackUpdateCompletion

Spec == Init /\ [][Next]_vars

----------------------------------------------------------------------------
(* Vocabulary of the claims *)

moving == DOMAIN new_logical_ids_map
SourceResources == ResourcesOf(template_source.content)
SourceOutputs ==
    IF Has(template_source.content, kOutputs) /\ IsObj(Get(template_source.content, kOutputs))
    THEN Get(template_source.content, kOutputs).v ELSE EmptyMap
\* The names referenced from the Outputs section of the source template.
OutputReferences == UNION {collect_references(SourceOutputs[o]) : o \in DOMAIN SourceOutputs}
SourceParameters == ParameterNames(template_source.content)

NoMutatingCall == \A i \in 1..Len(calls) : calls[i].op \notin MutatingOps

\* The errors of run() while it determines the mapping.
SelectionFailures ==
    {"resources_do_not_exist", "invalid_migration_spec", "no_resources_selected"}

\* validate_move_references has run in this run.
ReferencesValidated ==
    /\ is_cross_stack
    /\ pc \notin {"start", "selected"}
    /\ result.error \notin SelectionFailures

\* The final target template of a cross-scope move, once built.
FinalTargetLabels == {"target", "target-final"} \cap DOMAIN built

----------------------------------------------------------------------------
(* C1 *)

\* C1: in a cross-scope move whose mapping passed validate_move_references,
\* the final target template stores every moved declaration D under M(D) (a
\* declaration of D's type), every reference D made to a moved declaration T
\* names M(T) there, and an old name stays only where it is such an M(T).
C1_MovedReferencesFollow ==
    \A l \in FinalTargetLabels :
      LET M == new_logical_ids_map
          tgt == ResourcesOf(built[l].content)
      IN \A D \in moving \cap DOMAIN SourceResources :
           /\ M[D] \in DOMAIN tgt
           /\ tgt[M[D]].v[kType] = SourceResources[D].v[kType]
           /\ LET before == collect_references(SourceResources[D])
                  after == collect_references(tgt[M[D]])
              IN \A T \in before \cap moving :
                   /\ M[T] \in after
                   /\ T \in after =>
                        T \in {M[U] : U \in before \cap moving} \cup (before \ moving)

----------------------------------------------------------------------------
(* C2 *)

\* No output references a mover, and every declaration and every
\* non-parameter name it references move together or stay together.
SafeMove ==
    /\ OutputReferences \cap moving = {}
    /\ \A D \in DOMAIN SourceResources :
         \A T \in collect_references(SourceResources[D]) \ SourceParameters :
             (D \in moving) <=> (T \in moving)

----------------------------------------------------------------------------
(* C3 *)

\* The mapping contains a declaration that the Outputs section references.
OutputsCoupled == OutputReferences \cap moving # {}

----------------------------------------------------------------------------
(* C4 *)

\* One violation per Outputs reference to a mover and one per violating
\* (declarant, target) pair.
ExpectedViolations ==
    {Violation("outputs", kOutputs, T) : T \in OutputReferences \cap moving}
    \cup UNION {
        {Violation(IF D \in moving THEN "mover" ELSE "stayer", D, T) :
            T \in {U \in collect_references(SourceResources[D]) \ SourceParameters :
                     (D \in moving) # (U \in moving)}} :
        D \in DOMAIN SourceResources}

----------------------------------------------------------------------------
(* C5 *)

\* The template's declaration A holds one reference construct, naming B.
SingleRefAtoB ==
    \E f \in Forms : ResourcesOf(tree0)[idA] = DeclWith(f, tQueue, idB)

\* C5: for every template in which A holds a single reference to B, in any
\* recognised form, rewriting with {B -> C} and re-indexing yields an index in
\* which A references C and does not reference B.
C5_RewriteThenIndex ==
    (pc = "indexed" /\ SingleRefAtoB /\ applied = <<<<idB, idC>>>>)
        => (idA \in DOMAIN index /\ idC \in index[idA] /\ idB \notin index[idA])

----------------------------------------------------------------------------
(* C6 *)

\* Positions of run() after a relocation request or stack update was issued.
SubmittedPcs == {"poll_create", "execute", "poll_execute", "wait_retained",
                 "update_removed", "wait_removed", "create_changeset",
                 "wait_changeset", "execute_changeset", "wait_imported",
                 "update_final", "wait_final", "Completed"}

\* C6: a dry-run (--export) issues no mutating external call in any mode and
\* never is in Submitted, Polling or Completed.
C6_DryRunNeverMutates ==
    args_export => (NoMutatingCall /\ pc \notin SubmittedPcs)

C6_Witness == args_export /\ pc = "Exported" /\ Len(calls) > 0

----------------------------------------------------------------------------
(* C7 *)

\* The templates the same invocation submits without --export, in the order
\* the dry-run writes them.
FinalTemplateSet ==
    LET m == new_logical_ids_map
        added == add_resources(template_target.content, template_source.content, m, order)
    IN IF ~is_cross_stack
       THEN <<Template(RenamedTemplate(template_source.content, m, order),
                       template_source.format)>>
       ELSE IF args_mode = "Refactor"
       THEN <<Template(update_template_references(
                           remove_resources(template_source.content, DOMAIN m), m, order),
                       template_source.format),
              Template(update_template_references(added[2], m, order),
                       template_target.format)>>
       ELSE <<Template(retain_resources(template_source.content, DOMAIN m),
                       template_source.format),
              Template(remove_resources(template_source.content, DOMAIN m),
                       template_source.format),
              Template(update_template_references(added[1], m, order),
                       template_target.format),
              Template(update_template_references(added[2], m, order),
                       template_target.format)>>

\* C7: in every mode the templates a dry-run writes are the final template
\* set, the templates the same invocation without --export would submit.
C7_ExportedIsFinalSet ==
    pc = "Exported" =>
        /\ Len(disk) = Len(FinalTemplateSet)
        /\ \A i \in 1..Len(disk) :
             disk[i].ok /\ disk[i].body = to_string(FinalTemplateSet[i])

----------------------------------------------------------------------------
(* C8 *)

SafetyOrStructuralFailures ==
    {"dangling_references", "depends_on_parameters", "template_invalid"}

\* C8: when a safety check or a structural template validation fails, no
\* mutating external call has been issued; and no template validation call
\* ever follows a mutating call.
C8_ChecksBeforeMutation ==
    /\ (pc = "Failed" /\ result.error \in SafetyOrStructuralFailures) => NoMutatingCall
    /\ \A i, j \in 1..Len(calls) :
         (i < j /\ calls[i].op \in MutatingOps) => calls[j].op # "ValidateTemplate"

C8_Witness ==
    /\ pc = "Failed" /\ result.error = "template_invalid"
    /\ args_mode = "Import" /\ Len(calls) = Len(ImportValidationOrder)

----------------------------------------------------------------------------
(* C9 *)

\* Failures of an external call made after the final templates are computed.
ExternalCallFailures ==
    {"template_invalid", "create_stack_refactor", "describe_stack_refactor",
     "execute_stack_refactor", "refactor_validation_failed",
     "refactor_execution_failed", "update_stack", "create_change_set",
     "execute_change_set", "changeset_failed", "changeset_creation_failed",
     "stack_update_failed"}

\* A recovery block ran: it tried to save the templates and the error context.
RecoveryAttempted ==
    /\ \E i \in 1..Len(disk) :
         disk[i].dir = "cwd" /\ disk[i].kind \in {"template", "directory"}
    /\ \E i \in 1..Len(disk) :
         disk[i].dir = "cwd" /\ disk[i].kind \in {"context", "directory"}

\* C9: when an external call made after the final templates are computed
\* fails, the run saves the templates and an error-context record before it
\* ends in Failed.
C9_FailureSavesArtifacts ==
    (pc = "Failed" /\ result.error \in ExternalCallFailures) => RecoveryAttempted

----------------------------------------------------------------------------
(* C10 *)

\* C10: whenever a step of writing the recovery artifacts fails, the error
\* the run returns is still the failure of the external call.
C10_RecoveryNeverMasks ==
    (\E i \in 1..Len(disk) : disk[i].dir = "cwd" /\ ~disk[i].ok)
        => result.error \in ExternalCallFailures

----------------------------------------------------------------------------
(* C11 *)

\* The call just issued by a step, if it has this name.
Issues(op) == Len(calls') > Len(calls) /\ calls'[Len(calls')].op = op

\* calls[j] was preceded by a call of this name that returned Ok.
ReturnedBefore(op, j) == \E i \in 1..(j - 1) : calls[i].op = op /\ calls[i].reply = "ok"

\* Every template of a relocation request was validated successfully before
\* the request, and no validation had failed; every status poll follows a
\* created request.
C11_LogInOrder ==
    \A j \in 1..Len(calls) :
      /\ calls[j].op = "CreateStackRefactor" =>
           /\ \A d \in 1..Len(calls[j].body) :
                \E i \in 1..(j - 1) :
                  /\ calls[i].op = "ValidateTemplate" /\ calls[i].reply = "ok"
                  /\ calls[i].body.text_of = calls[j].body[d].body.text_of
           /\ \A i \in 1..(j - 1) : calls[i].reply = "ok"
      /\ calls[j].op = "DescribeStackRefactor" => ReturnedBefore("CreateStackRefactor", j)
      /\ calls[j].op = "ExecuteStackRefactor" =>
           /\ calls[j - 1].op = "DescribeStackRefactor" /\ calls[j - 1].reply = "ok"
           /\ \A i \in 1..(j - 1) : calls[i].op # "ExecuteStackRefactor"

\* The execute call is issued by a step that starts where the latest poll
\* reported CREATE_COMPLETE; an execution status is read only after an execute
\* call that returned Ok.
C11_StepsInOrder ==
    /\ Issues("ExecuteStackRefactor") => observed = Observing("status", "CREATE_COMPLETE")
    /\ (Issues("DescribeStackRefactor") /\ observed'.read = "execution_status") =>
          ReturnedBefore("ExecuteStackRefactor", Len(calls) + 1)

\* C11: within a refactoring the steps are strictly sequential: template
\* validation succeeds before the relocation request is created, the request
\* is created before the first status poll, the execute call is issued only
\* after a poll reported CREATE_COMPLETE, and no execution status is polled
\* before the execute call returned.
C11_StrictlySequential == []C11_LogInOrder /\ [][C11_StepsInOrder]_vars

\* A refactoring that went through every step, with a repeated creation poll.
C11_Witness ==
    /\ pc = "Completed" /\ args_mode = "Refactor"
    /\ \E i \in 1..Len(calls) : calls[i].op = "ExecuteStackRefactor"
    /\ \E i \in 2..(Len(calls) - 1) :
         calls[i].op = "DescribeStackRefactor" /\ calls[i - 1].op = "DescribeStackRefactor"
         /\ calls[i + 1].op = "ExecuteStackRefactor"

----------------------------------------------------------------------------
(* C12 *)

\* The positions of run() inside a polling loop.
PollingPcs == {"poll_create", "poll_execute", "wait_changeset"} \cup DOMAIN AfterWait

\* The statuses after which the operation polled does not change any more.
TerminalStatuses ==
    {"CREATE_COMPLETE", "CREATE_FAILED", "FAILED", "EXECUTE_COMPLETE", "EXECUTE_FAILED",
     "UPDATE_COMPLETE", "IMPORT_COMPLETE", "UPDATE_ROLLBACK_COMPLETE", "DELETE_COMPLETE"}

\* A step of a polling loop whose status call returned Ok.
StatusReceived ==
    /\ pc \in PollingPcs
    /\ Len(calls') > Len(calls) /\ calls'[Len(calls')].reply = "ok"

\* C12: a polling loop that received a status response stays in the loop when
\* the response carries no terminal status, and leaves it (towards the next
\* step, Completed or Failed) when the response carries one.
C12_PollsUntilTerminal ==
    [][StatusReceived => ((pc' # pc) <=> (observed'.status \in TerminalStatuses))]_vars

----------------------------------------------------------------------------
(* C13 *)

\* The parameters of the source template a declaration references.
ParametersOf(D) == collect_references(SourceResources[D]) \cap SourceParameters

\* The moving declarations that reference a parameter of the source template.
ParameterDependent == {D \in moving \cap DOMAIN SourceResources : ParametersOf(D) # {}}

\* C13: in import mode, when a moving declaration references a parameter of
\* the source template, the run issues no stack update and creates no change
\* set; once the checks are done it has failed, and the parameter failure
\* lists every such declaration, each once, with the parameters it references.
C13_ImportBlocksParameters ==
    (args_mode = "Import" /\ ParameterDependent # {}) =>
        /\ NoMutatingCall
        /\ pc \notin {"start", "selected", "checked"} =>
             /\ pc = "Failed"
             /\ result.error \in SelectionFailures \cup {"dangling_references", "depends_on_parameters"}
        /\ result.error = "depends_on_parameters" =>
             /\ Len(result.detail) = Cardinality(ParameterDependent)
             /\ {result.detail[i] : i \in 1..Len(result.detail)}
                  = {[id |-> D, params |-> ParametersOf(D)] : D \in ParameterDependent}

\* Two moving declarations depend on the parameter P and both are listed.
C13_Witness ==
    /\ args_mode = "Import" /\ ParameterDependent = {idA, idB}
    /\ result.error = "depends_on_parameters" /\ Len(result.detail) = 2

-----------------------------------------------------------------------------
(* C14 *)

\* The keys of the mapping that the source template does not declare.
UndeclaredKeys == moving \ DOMAIN SourceResources

\* C14: when a key of the mapping is not a declaration of the source
\* template, the run issues no mutating call and does not complete; so every
\* run that issued a mutating call has all its keys declared in the source
\* template.
C14_KeysAreDeclared ==
    UndeclaredKeys # {} => (NoMutatingCall /\ pc # "Completed")

-----------------------------------------------------------------------------
(* C15 *)

\* The names of the placeholders ${name} and ${name.attr} of a template string.
PlaceholderNames(s) ==
    {SubSeq(s, i + 2, FirstAt(s, i + 2, {"}", "."}) - 1) :
        i \in {n \in 1..(Len(s) - 1) : s[n] = "$" /\ s[n + 1] = "{"}}

\* The names the reference constructs of one object name, pseudo-parameters
\* included: Ref, Fn::GetAtt, placeholders of Fn::Sub, DependsOn next to Type.
NamedBy(map) ==
    (IF kRef \in DOMAIN map /\ IsStr(map[kRef]) THEN {map[kRef].v} ELSE {})
    \cup GetAttNames(map)
    \cup (IF kSub \in DOMAIN map /\ IsStr(map[kSub]) THEN PlaceholderNames(map[kSub].v)
          ELSE IF kSub \in DOMAIN map /\ IsArr(map[kSub]) /\ Len(map[kSub].v) > 0
                  /\ IsStr(map[kSub].v[1])
               THEN PlaceholderNames(map[kSub].v[1].v) ELSE {})
    \cup DependsOnNames(map)

\* The names the reference constructs of a value name, at any depth.
RECURSIVE NamedIn(_)
NamedIn(value) ==
    IF IsObj(value)
    THEN NamedBy(value.v) \cup UNION {NamedIn(value.v[k]) : k \in DOMAIN value.v}
    ELSE IF IsArr(value) THEN UNION {NamedIn(value.v[i]) : i \in 1..Len(value.v)}
         ELSE {}

\* The value holds a reference construct naming something that is not a
\* pseudo-parameter.
ReferencesSomething(value) ==
    \E name \in NamedIn(value) : name # <<>> /\ ~is_pseudo_parameter(name)

\* C15: the index holds a declaration D as a key if and only if the body of D
\* holds, at any depth, a reference construct naming a non-pseudo-parameter;
\* no key of the index has an empty set.
C15_KeyIffReferences ==
    pc = "indexed" =>
        /\ \A D \in DOMAIN ResourcesOf(tree0) :
              (D \in DOMAIN index) <=> ReferencesSomething(ResourcesOf(tree0)[D])
        /\ \A D \in DOMAIN index : index[D] # {}

-----------------------------------------------------------------------------
(* C16 *)

\* C16: no referenced set of the index holds a name beginning with "AWS::".
C16_NoPseudoParameterIndexed ==
    pc = "indexed" =>
        \A D \in DOMAIN index : \A name \in index[D] : ~is_pseudo_parameter(name)

-----------------------------------------------------------------------------
(* C17 *)

\* The declaration names a parent cluster: it holds DBClusterIdentifier, among
\* its Properties (where CloudFormation declares it) or next to its Type.
NamesParentCluster(decl) ==
    \/ <<"DBClusterIdentifier">> \in DOMAIN decl.v
    \/ /\ Has(decl, kProperties) /\ IsObj(Get(decl, kProperties))
       /\ <<"DBClusterIdentifier">> \in DOMAIN Get(decl, kProperties).v

\* The default the claim gives a declaration by its type.
TypeDefault(decl) ==
    IF Get(decl, kType).v = tCluster THEN <<"Snapshot">>
    ELSE IF Get(decl, kType).v = tInstance
         THEN (IF NamesParentCluster(decl) THEN <<"Delete">> ELSE <<"Snapshot">>)
         ELSE <<"Delete">>

\* C17: set_default_deletion_policy gives every listed declaration without a
\* DeletionPolicy the default of its type (cluster: Snapshot; instance: Delete
\* when it names a parent cluster, Snapshot when not; other types: Delete)
\* and leaves every other declaration, and the set of declarations, unchanged.
C17_DefaultByType ==
    pc = "defaulted" =>
        /\ DOMAIN ResourcesOf(tree) = DOMAIN ResourcesOf(tree0)
        /\ \A r \in DOMAIN ResourcesOf(tree0) :
              LET before == ResourcesOf(tree0)[r]
                  after == ResourcesOf(tree)[r]
              IN IF r \in listed_ids /\ IsObj(before) /\ kDeletionPolicy \notin DOMAIN before.v
                 THEN after = Obj(Insert(before.v, kDeletionPolicy, Str(TypeDefault(before))))
                 ELSE after = before

-----------------------------------------------------------------------------
(* C18 *)

\* C18: update_template_references with an empty mapping returns its input.
C18_EmptyMappingIsIdentity ==
    pc = "rewritten" => tree = tree0

\* The empty mapping was applied to an array holding a reference construct, a
\* number and null.
C18_Witness ==
    /\ pc = "rewritten"
    /\ tree0 = Arr(<<RefTo(idA), Num(1), Null>>)
    /\ tree = tree0

-----------------------------------------------------------------------------
(* C19 *)

\* The template string with every placeholder named old_id, in the forms
\* ${old_id} and ${old_id.attr}, renamed to new_id, read placeholder by
\* placeholder from the left; all other text is kept.
RECURSIVE RenamedPlaceholders(_, _, _)
RenamedPlaceholders(s, old_id, new_id) ==
    IF s = <<>> THEN <<>>
    ELSE IF Len(s) >= 2 /\ s[1] = "$" /\ s[2] = "{"
         THEN LET j == FirstAt(s, 3, {"}", "."})
                  name == SubSeq(s, 3, j - 1)
              IN IF j <= Len(s) /\ name = old_id
                 THEN <<"$", "{">> \o new_id
                      \o RenamedPlaceholders(SubSeq(s, j, Len(s)), old_id, new_id)
                 ELSE <<"$", "{">> \o RenamedPlaceholders(SubSeq(s, 3, Len(s)), old_id, new_id)
         ELSE <<s[1]>> \o RenamedPlaceholders(Tail(s), old_id, new_id)

\* The template string of an Fn::Sub value, in its string or array form.
SubTemplateOf(value) ==
    IF IsStr(Get(value, kSub)) THEN Get(value, kSub).v ELSE Get(value, kSub).v[1].v

\* C19: renaming old to new in an Fn::Sub template string renames exactly the
\* placeholders named old, ${old} and ${old.attr}; every other placeholder,
\* ${old2} included, and all other text are unchanged.
C19_SubRenamesExactlyOld ==
    pc = "renamed" =>
        SubTemplateOf(tree) = RenamedPlaceholders(SubTemplateOf(tree0), applied[1][1], applied[1][2])

\* A string holding ${A} next to ${A2} was renamed for A: only ${A} changed.
C19_Witness ==
    /\ pc = "renamed" /\ applied = <<(<<idA, idC>>)>>
    /\ SubTemplateOf(tree0) = SubPlaceholder(idA) \o SubPlaceholder(idA2)
    /\ SubTemplateOf(tree) = SubPlaceholder(idC) \o SubPlaceholder(idA2)

-----------------------------------------------------------------------------
(* C20 *)

\* The labels of the templates derived from the target template; every other
\* template of a run is derived from the source template.
TargetLabels == {"target", "target-with-policy", "target-final", "target-with-deletion-policy"}
FormatOfOrigin(label) ==
    IF label \in TargetLabels THEN template_target.format ELSE template_source.format
FormatOfStack(stack) ==
    IF stack = source_stack THEN template_source.format ELSE template_target.format

\* A template submitted without a stack name is one of the built templates,
\* serialized in the format of the template that one was derived from.
InFormatOfOrigin(body) ==
    \E label \in DOMAIN built :
        body.text_of = built[label].content /\ body.syntax = FormatOfOrigin(label)

\* C20: every template the run submits (validation, template summary, stack
\* definition, stack update, change set) or writes (export, recovery) is
\* serialized in the format of the template it was derived from: the source's
\* format for source-derived templates, the target's for target-derived ones.
C20_FormatPreserved ==
    /\ \A i \in 1..Len(calls) :
          /\ calls[i].op \in {"ValidateTemplate", "GetTemplateSummary"} =>
                InFormatOfOrigin(calls[i].body)
          /\ calls[i].op \in {"UpdateStack", "CreateChangeSet"} =>
                calls[i].body.syntax = FormatOfStack(calls[i].stack)
          /\ calls[i].op = "CreateStackRefactor" =>
                \A d \in 1..Len(calls[i].body) :
                    calls[i].body[d].body.syntax = FormatOfStack(calls[i].body[d].stack)
    /\ \A i \in 1..Len(disk) :
          disk[i].kind = "template" => disk[i].body.syntax = FormatOfOrigin(disk[i].suffix)

-----------------------------------------------------------------------------
(* C21 *)

\* C21: the rewriter changes exactly the positions from which the index
\* builder collects the old name.  After one pass old -> new over a template,
\* for every declaration: when the index builder collected old from its body,
\* it collects old from the rewritten body no more (every such position was
\* changed); when it did not, the body is unchanged (no other position was).
C21_RewritesWhatIsCollected ==
    pc = "pair_applied" =>
        \A D \in DOMAIN ResourcesOf(tree0) :
            LET before == ResourcesOf(tree0)[D]
                after == ResourcesOf(tree)[D]
                old_id == applied[1][1]
            IN IF old_id \in collect_references(before)
               THEN old_id \notin collect_references(after)
               ELSE after = before

-----------------------------------------------------------------------------
(* C22 *)

\* The names declaration B references before and after the passes.
ReferencedBefore == collect_references(ResourcesOf(tree0)[idB])
ReferencedAfter == collect_references(ResourcesOf(tree)[idB])

\* C22: for the chain {A -> B, B -> C} the result depends on the order of the
\* passes.  In a declaration that references A: with A -> B applied first the
\* references to A and to B all end as C; with B -> C applied first the
\* references to A end as B and those to B as C.
C22_ChainDependsOnOrder ==
    (pc = "indexed" /\ idA \in ReferencedBefore) =>
        /\ applied = <<(<<idA, idB>>), (<<idB, idC>>)>> =>
              ReferencedAfter = {IF n \in {idA, idB} THEN idC ELSE n : n \in ReferencedBefore}
        /\ applied = <<(<<idB, idC>>), (<<idA, idB>>)>> =>
              ReferencedAfter = {IF n = idA THEN idB ELSE IF n = idB THEN idC ELSE n :
                                   n \in ReferencedBefore}

\* B held Ref A; A -> B was applied before B -> C and B holds Ref C.
C22_Witness ==
    /\ pc = "indexed"
    /\ applied = <<(<<idA, idB>>), (<<idB, idC>>)>>
    /\ ResourcesOf(tree0)[idB] = Decl(tBucket, RefTo(idA))
    /\ ResourcesOf(tree)[idB] = Decl(tBucket, RefTo(idC))

-----------------------------------------------------------------------------
(* C23 *)

\* The calls of the import sequence that change a stack.
ImportMutatingOps == {"UpdateStack", "CreateChangeSet", "ExecuteChangeSet"}

IsImportMutating(c) == c.op \in ImportMutatingOps

MutatingCalls == SelectSeq(calls, IsImportMutating)

\* The mutating calls of lines 828-875 in the order of the code.
ImportPlan ==
    (IF to_string(template_source) # to_string(built["retained"])
     THEN <<UpdateStackCall(source_stack, "retained")>> ELSE <<>>)
    \o <<UpdateStackCall(source_stack, "removed"),
         Call("CreateChangeSet", target_stack, to_string(built["target-with-policy"])),
         Call("ExecuteChangeSet", target_stack, NoBody),
         UpdateStackCall(target_stack, "target-final")>>

\* The statuses on which wait_for_stack_update_completion returns Ok(()),
\* and those on which wait_for_changeset_created does.
StackWaitReturned == {Observing("stack_status", s) : s \in {"UPDATE_COMPLETE", "IMPORT_COMPLETE", "None"}}
ChangesetWaitReturned == {Observing("status", s) : s \in {"CREATE_COMPLETE", "None"}}

\* The mutating calls issued so far are a prefix of the plan, all but the
\* last returned Ok, a failed call is the last call of the run, and every
\* mutating call after the first directly follows a status read that
\* returned (create_change_set reads the template summary in between).
C23_LogInOrder ==
    MutatingCalls # <<>> =>
        /\ Len(MutatingCalls) <= Len(ImportPlan)
        /\ \A k \in 1..Len(MutatingCalls) :
             [MutatingCalls[k] EXCEPT !.reply = "ok"] = ImportPlan[k]
        /\ \A j \in 1..Len(calls) : calls[j].reply = "error" => j = Len(calls)
        /\ \A j \in 2..Len(calls) :
             (IsImportMutating(calls[j]) /\ \E i \in 1..(j - 1) : IsImportMutating(calls[i]))
                => LET k == IF calls[j].op = "CreateChangeSet" THEN j - 2 ELSE j - 1
                   IN /\ calls[k].op \in {"DescribeStacks", "DescribeChangeSet"}
                      /\ calls[k].reply = "ok"

\* A mutating call after the first is issued by a step that starts where the
\* wait before it returned Ok(()): the change set wait before the execution,
\* a stack wait before the others.  After a failure no call is issued.
C23_StepsInOrder ==
    /\ Issues("ExecuteChangeSet") => observed \in ChangesetWaitReturned
    /\ ((Issues("UpdateStack") \/ Issues("CreateChangeSet")) /\ MutatingCalls # <<>>)
          => observed \in StackWaitReturned
    /\ pc = "Failed" => calls' = calls

-----------------------------------------------------------------------------
(* C24 *)

\* The names a declaration of the input template references.
ReferencedBy(d) == collect_references(ResourcesOf(tree0)[d])

\* The names the Outputs section of a template references.
OutputReferencesOf(template) ==
    LET outs == IF Has(template, kOutputs) /\ IsObj(Get(template, kOutputs))
                THEN Get(template, kOutputs).v ELSE EmptyMap
    IN UNION {collect_references(outs[o]) : o \in DOMAIN outs}

\* Incoming: some declaration other than R itself references R.
IncomingAsStated(R) == \E d \in DOMAIN ResourcesOf(tree0) \ {R} : R \in ReferencedBy(d)

\* Outgoing, referenced by Outputs, and depending on parameters.
OtherMarkersAsStated(R) ==
    /\ index[R].has_outgoing_deps <=> ReferencedBy(R) \cap DOMAIN ResourcesOf(tree0) # {}
    /\ index[R].referenced_by_outputs <=> R \in OutputReferencesOf(tree0)
    /\ index[R].depends_on_parameters <=> ReferencedBy(R) \cap ParameterNames(tree0) # {}

\* C24: for every listed resource R, has-incoming holds iff a declarant other
\* than R itself (Outputs excluded) references R, has-outgoing iff R references
\* a declaration of the template, referenced-by-outputs iff the Outputs
\* section references R, depends-on-parameters iff R references a parameter.
C24_MarkersAsStated ==
    pc = "marked" =>
        \A R \in listed_ids :
            /\ index[R].has_incoming_deps <=> IncomingAsStated(R)
            /\ OtherMarkersAsStated(R)

-----------------------------------------------------------------------------
(* C25 *)

\* The target templates of a cross-scope refactoring: the one built for
\* submission and the ones written to disk.
RefactorTargets ==
    IF args_mode = "Refactor" /\ is_cross_stack
    THEN {built[l].content : l \in {"target"} \cap DOMAIN built}
         \cup {disk[i].body.text_of :
                 i \in {j \in 1..Len(disk) : /\ disk[j].kind = "template"
                                             /\ disk[j].suffix = "target"}}
    ELSE {}

\* C25: in a cross-scope refactoring, executed or dry-run, the target
\* template holds each moved declaration under its new id with the fields it
\* had in the source, references rewritten and nothing else changed: no
\* DeletionPolicy is added.
C25_MovedDeclarationsAsInSource ==
    \A T \in RefactorTargets :
        \A D \in moving \cap DOMAIN SourceResources :
            /\ new_logical_ids_map[D] \in DOMAIN ResourcesOf(T)
            /\ ResourcesOf(T)[new_logical_ids_map[D]]
                  = update_template_references(SourceResources[D], new_logical_ids_map, order)

-----------------------------------------------------------------------------
(* C26 *)

\* The id under which a declaration of the source is expected after a rename.
RenamedId(D) == IF D \in moving THEN new_logical_ids_map[D] ELSE D

\* C26: a same-stack rename that passed the pre-checks of run (every pair
\* renames, no new id is an existing declaration) builds a template with as
\* many declarations as the source: every mapped declaration under its new
\* id, every other declaration under its own, none dropped or overwritten.
C26_RenameKeepsDeclarations ==
    (~is_cross_stack /\ "refactored" \in DOMAIN built) =>
        LET renamed == ResourcesOf(built["refactored"].content)
        IN /\ Cardinality(DOMAIN renamed) = Cardinality(DOMAIN SourceResources)
           /\ \A D \in DOMAIN SourceResources :
                /\ RenamedId(D) \in DOMAIN renamed
                /\ renamed[RenamedId(D)]
                      = update_template_references(SourceResources[D],
                                                   new_logical_ids_map, order)

-----------------------------------------------------------------------------
(* C27 *)

\* The declarations of the target template as it was read.
TargetResources == ResourcesOf(template_target.content)

\* The final target templates of a cross-scope move: the one built for
\* submission and the ones written to disk.
FinalTargets ==
    IF is_cross_stack
    THEN {built[l].content : l \in FinalTargetLabels}
         \cup {disk[i].body.text_of :
                 i \in {j \in 1..Len(disk) : /\ disk[j].kind = "template"
                                             /\ disk[j].suffix \in {"target", "target-final"}}}
    ELSE {}

\* C27: in the cross-scope modes every declaration the target template had
\* before the move is in the final target template under the same id with
\* an identical body.
C27_TargetDeclarationsUntouched ==
    \A T \in FinalTargets :
        \A N \in DOMAIN TargetResources :
            N \in DOMAIN ResourcesOf(T) /\ ResourcesOf(T)[N] = TargetResources[N]

-----------------------------------------------------------------------------
(* C28 *)

\* C28: every violation validate_move_references reports names as its target
\* a declaration of the template's Resources section; a collected name that
\* is neither a declaration nor a parameter makes no move fail.
C28_ViolationsNameDeclarations ==
    pc = "validated" =>
        \A i \in 1..Len(applied) : applied[i].to \in DOMAIN ResourcesOf(tree0)

-----------------------------------------------------------------------------
(* C29 *)

\* A step of wait_for_stack_update_completion that returns Ok(()): run()
\* goes on with what follows the wait.
WaitReturnsOk == pc \in DOMAIN AfterWait /\ pc' = AfterWait[pc]

\* A step of the wait whose status call failed, or returned something other
\* than an in-progress or a completed status.
WaitSeesNoCompletion ==
    /\ pc \in DOMAIN AfterWait
    /\ Len(calls') > Len(calls)
    /\ \/ calls'[Len(calls')].reply = "error"
       \/ observed'.status \notin {"UPDATE_IN_PROGRESS", "UPDATE_COMPLETE_CLEANUP_IN_PROGRESS",
                                    "IMPORT_IN_PROGRESS", "UPDATE_COMPLETE", "IMPORT_COMPLETE"}

\* C29: wait_for_stack_update_completion returns Ok only when the last status
\* it observed is UPDATE_COMPLETE or IMPORT_COMPLETE; a failure or rollback
\* status, an absent status and a failed status call end the run in failure.
C29_SuccessOnlyOnComplete ==
    [][/\ WaitReturnsOk => observed'.status \in {"UPDATE_COMPLETE", "IMPORT_COMPLETE"}
       /\ WaitSeesNoCompletion => pc' = "Failed"]_vars

-----------------------------------------------------------------------------
(* C30 *)

\* The mapping whose pairs have been applied.
AppliedMapping ==
    [k \in {applied[i][1] : i \in DOMAIN applied} |->
        applied[CHOOSE i \in DOMAIN applied : applied[i][1] = k][2]]

\* The new ids are pairwise distinct and none is the old id of another pair.
NoChainsOrMerges(m) ==
    \A x, y \in DOMAIN m : x # y => (m[x] # m[y] /\ m[x] # y)

\* C30: for a mapping without chains or merges the rewritten template is the
\* same for every order of the pairs: the template the loop produced in the
\* order it took is the one update_template_references yields in each order.
C30_OrderIndependent ==
    (pc = "indexed" /\ NoChainsOrMerges(AppliedMapping)) =>
        \A ord \in Orders(DOMAIN AppliedMapping) :
            update_template_references(tree0, AppliedMapping, ord) = tree

\* Two renaming pairs, applied to declarations that reference each other.
C30_Witness ==
    /\ pc = "indexed"
    /\ applied = <<(<<idB, idD>>), (<<idA, idC>>)>>
    /\ ResourcesOf(tree0)[idA] = Decl(tQueue, RefTo(idB))
    /\ ResourcesOf(tree0)[idB] = Decl(tBucket, RefTo(idA))
    /\ ResourcesOf(tree)[idA] = Decl(tQueue, RefTo(idD))
    /\ ResourcesOf(tree)[idB] = Decl(tBucket, RefTo(idC))

====
